---- MODULE Spec2Model ----
(***************************************************************************)
(* A model of the FM-index aligners of test_modules: the shared index      *)
(* construction and backward search (Utility_Functions/shared_utils.py),   *)
(* the tiered HISAT-style aligner (Aln_Algorithm_Functions/                *)
(* hisat_alignment.py) and the seed-and-extend Bowtie2-style aligner with  *)
(* its Smith-Waterman extension (Aln_Algorithm_Functions/                  *)
(* bowtie_alignment.py).                                                   *)
(*                                                                         *)
(* Python strings are sequences of one-character strings; Python offsets   *)
(* are kept 0-based, so text[i] of the code is text[i + 1] here.  Python   *)
(* dictionaries are functions whose DOMAIN is the set of keys.             *)
(***************************************************************************)
EXTENDS Integers, Sequences, FiniteSets, TLC

(***************************************************************************)
(* Bounds of the model.                                                    *)
(***************************************************************************)
\* longest reference of the exhaustively enumerated inputs
MaxRefLen == 3
\* longest read (pattern) of the exhaustively enumerated inputs
MaxReadLen == 2
\* most substitutions made in a read cut from a reference, and largest K
MaxSubs == 2

(***************************************************************************)
(* Strings.                                                                *)
(***************************************************************************)
Sigma == {"A", "C", "G", "T", "N"}

\* the code point of a symbol: Python compares strings by code point
Ord(c) ==
  CASE c = "$" -> 36
    [] c = "A" -> 65
    [] c = "C" -> 67
    [] c = "G" -> 71
    [] c = "N" -> 78
    [] c = "T" -> 84

Min(a, b) == IF a < b THEN a ELSE b
Max(a, b) == IF a > b THEN a ELSE b

\* Python s[a:b] for 0 <= a: the end is clamped to len(s)
Slice(s, a, b) == SubSeq(s, a + 1, Min(b, Len(s)))

\* Python s[a:]
SliceFrom(s, a) == SubSeq(s, a + 1, Len(s))

\* all strings over alphabet S whose length lies in lo..hi
Strs(S, lo, hi) == UNION {[1..n -> S] : n \in lo..hi}

\* the first offset at which s and t differ, one past the shorter string
\* if they agree on all of it
FirstDifference(s, t) ==
  CHOOSE k \in 1..(Min(Len(s), Len(t)) + 1) :
    k > Min(Len(s), Len(t)) \/ s[k] # t[k]

\* Python's s < t on strings: decided at the first differing offset, a
\* proper prefix being the smaller
StrLess(s, t) ==
  LET k == FirstDifference(s, t) IN
  IF k > Min(Len(s), Len(t)) THEN Len(s) < Len(t)
  ELSE Ord(s[k]) < Ord(t[k])

\* Python range(start, stop, step) for step > 0, as a sequence
RECURSIVE Range(_, _, _)
Range(start, stop, step) ==
  IF start >= stop THEN <<>>
  ELSE <<start>> \o Range(start + step, stop, step)

\* Python sorted() on a list of integers (stable insertion)
RECURSIVE InsertInt(_, _)
InsertInt(sorted, x) ==
  IF sorted = <<>> THEN <<x>>
  ELSE IF x < Head(sorted) THEN <<x>> \o sorted
  ELSE <<Head(sorted)>> \o InsertInt(Tail(sorted), x)

RECURSIVE SortedInts(_)
SortedInts(xs) ==
  IF xs = <<>> THEN <<>>
  ELSE InsertInt(SortedInts(SubSeq(xs, 1, Len(xs) - 1)), xs[Len(xs)])

(***************************************************************************)
(* shared_utils.py: suffix array, BWT, count and occurrence tables,        *)
(* backward search.                                                        *)
(***************************************************************************)
\* a sort key that looks at the first symbol of the suffix only
SuffixKeyLess_FirstSymbol(s, t) == Ord(s[1]) < Ord(t[1])

\* the comparison list.sort(key = suffix) makes between two suffix keys
SuffixKeyLess(s, t) == StrLess(s, t)

\* whether the pair (text[j:], j) comes before (text[i:], i) once the list
\* is sorted by key: list.sort is stable, so pairs with equal keys keep
\* the order in which they were appended
SuffixBefore(text, j, i) ==
  \/ SuffixKeyLess(SliceFrom(text, j), SliceFrom(text, i))
  \/ /\ ~SuffixKeyLess(SliceFrom(text, i), SliceFrom(text, j))
     /\ j < i

\* the slot of (text[i:], i) in the sorted list: the number of pairs before it
SuffixSlot(text, i) ==
  Cardinality({j \in 0..(Len(text) - 1) : SuffixBefore(text, j, i)})

\* the slot of every pair, that of (text[i:], i) at i + 1
SuffixSlots(text) ==
  <<>> \o [k \in 1..Len(text) |-> SuffixSlot(text, k - 1)]

\* the indices of the pairs in the order of their slots
IndicesBySlot(slots) ==
  <<>> \o [k \in 1..Len(slots) |->
             CHOOSE i \in 0..(Len(slots) - 1) : slots[i + 1] = k - 1]

\* suffixes.sort(key = suffix), then the indices of the pairs in order
build_suffix_array(text) == IndicesBySlot(SuffixSlots(text))

build_BWT(text, suffix_array) ==
  [i \in 1..Len(text) |->
     IF suffix_array[i] = 0 THEN text[Len(text)]
     ELSE text[suffix_array[i]]]

\* the symbols of a string
Chars(s) == {s[i] : i \in 1..Len(s)}

\* counts[c] of build_count_table
CharCounts(bwt) ==
  [c \in Chars(bwt) |-> Cardinality({i \in 1..Len(bwt) : bwt[i] = c})]

\* sorted(counts.keys()): the distinct symbols by ascending code point
RECURSIVE SortedChars(_)
SortedChars(S) ==
  IF S = {} THEN <<>>
  ELSE LET c == CHOOSE x \in S : \A y \in S : Ord(x) <= Ord(y)
       IN <<c>> \o SortedChars(S \ {c})

\* the running total of build_count_table's loop over sorted_chars
RECURSIVE CountAccumulate(_, _, _, _)
CountAccumulate(chars, counts, total, c_table) ==
  IF chars = <<>> THEN c_table
  ELSE CountAccumulate(Tail(chars), counts, total + counts[Head(chars)],
                       [x \in DOMAIN c_table \cup {Head(chars)} |->
                          IF x = Head(chars) THEN total ELSE c_table[x]])

\* a table that counts the symbol itself among the smaller ones
build_count_table_Inclusive(bwt) ==
  [c \in Chars(bwt) |->
     CountAccumulate(SortedChars(Chars(bwt)), CharCounts(bwt), 0, <<>>)[c]
       + CharCounts(bwt)[c]]

build_count_table(bwt) ==
  CountAccumulate(SortedChars(Chars(bwt)), CharCounts(bwt), 0, <<>>)

\* occ as build_occurrence_table has it before its loop over the offsets
\* of bwt: for every symbol of bwt a list of n + 1 zeros; occ[c][i] of the
\* code is occ[c][i + 1] here
ZeroOccurrence(bwt) ==
  [c \in Chars(bwt) |-> [k \in 1..(Len(bwt) + 1) |-> 0]]

\* an iteration that does not carry the count of the offsets before it
OccAfterIteration_NoCarry(occ, bwt, i) ==
  [c \in DOMAIN occ |->
     [occ[c] EXCEPT ![i + 2] = IF bwt[i + 1] = c THEN 1 ELSE 0]]

\* occ after the iteration i of that loop: entry i + 1 of every list is
\* entry i, and one more in the list of the symbol bwt[i]
OccAfterIteration(occ, bwt, i) ==
  [c \in DOMAIN occ |->
     [occ[c] EXCEPT ![i + 2] = occ[c][i + 1] + (IF bwt[i + 1] = c THEN 1 ELSE 0)]]

\* top and bottom as one iteration of the loop of FM_backward_search sets
\* them for the symbol c
NextTop(c_table, occ, c, top) ==
  c_table[c] + (IF top > 0 THEN occ[c][top + 1] ELSE 0)

NextBottom(c_table, occ, c, bottom) == c_table[c] + occ[c][bottom + 1]

\* an iteration that returns the no-match range for an absent symbol only
NoMatch_AbsentOnly(c_table, occ, c, top, bottom) == c \notin DOMAIN c_table

\* whether the iteration for the symbol c returns the no-match range
NoMatch(c_table, occ, c, top, bottom) ==
  \/ c \notin DOMAIN c_table
  \/ NextTop(c_table, occ, c, top) >= NextBottom(c_table, occ, c, bottom)

RECURSIVE BackwardStep(_, _, _, _, _, _)

\* a loop that passes over a symbol the count table does not hold
BackwardStep_SkipsAbsent(pattern, c_table, occ, i, top, bottom) ==
  IF i < 1 THEN <<top, bottom>>
  ELSE IF pattern[i] \notin DOMAIN c_table
  THEN BackwardStep(pattern, c_table, occ, i - 1, top, bottom)
  ELSE IF NoMatch(c_table, occ, pattern[i], top, bottom) THEN <<-1, -1>>
  ELSE BackwardStep(pattern, c_table, occ, i - 1,
                    NextTop(c_table, occ, pattern[i], top),
                    NextBottom(c_table, occ, pattern[i], bottom))

\* the loop of FM_backward_search from the symbol at i down to the first;
\* <<-1, -1>> is the no-match range
BackwardStep(pattern, c_table, occ, i, top, bottom) ==
  IF i < 1 THEN <<top, bottom>>
  ELSE IF NoMatch(c_table, occ, pattern[i], top, bottom) THEN <<-1, -1>>
  ELSE BackwardStep(pattern, c_table, occ, i - 1,
                    NextTop(c_table, occ, pattern[i], top),
                    NextBottom(c_table, occ, pattern[i], bottom))

\* a search whose initial range leaves out the last slot
FM_backward_search_ShortRange(pattern, c_table, occ, bwt_len) ==
  BackwardStep(pattern, c_table, occ, Len(pattern), 0, bwt_len - 1)

FM_backward_search(pattern, c_table, occ, bwt_len) ==
  BackwardStep(pattern, c_table, occ, Len(pattern), 0, bwt_len)

(***************************************************************************)
(* str(n) of a non-negative integer: its decimal digits.                   *)
(***************************************************************************)
Digit(d) ==
  CASE d = 0 -> "0" [] d = 1 -> "1" [] d = 2 -> "2" [] d = 3 -> "3"
    [] d = 4 -> "4" [] d = 5 -> "5" [] d = 6 -> "6" [] d = 7 -> "7"
    [] d = 8 -> "8" [] d = 9 -> "9"

RECURSIVE Str(_)
Str(n) == IF n < 10 THEN <<Digit(n)>> ELSE Str(n \div 10) \o <<Digit(n % 10)>>

(***************************************************************************)
(* hisat_alignment.py                                                      *)
(***************************************************************************)
\* suffix_array[index] for index in range(top, bottom)
RangeOfSA(suffix_array, top, bottom) ==
  [k \in 1..(bottom - top) |-> suffix_array[top + k]]

locate_pattern(pattern, suffix_array, count_table, occurence) ==
  LET r == FM_backward_search(pattern, count_table, occurence, Len(suffix_array))
      top == r[1]
      bottom == r[2]
  IN IF top >= bottom \/ top < 0 THEN <<>>
     ELSE SortedInts(RangeOfSA(suffix_array, top, bottom))

\* a count that leaves out the first offset
count_mismatches_SkipsFirst(seq1, seq2) ==
  Cardinality({p \in 2..Min(Len(seq1), Len(seq2)) : seq1[p] # seq2[p]})

count_mismatches(seq1, seq2) ==
  Cardinality({p \in 1..Min(Len(seq1), Len(seq2)) : seq1[p] # seq2[p]})

\* the floor of the seed length of seed_and_extend
min_seed_len == 8

\* a seed length without the floor
seed_len_of_NoFloor(read_len, max_mismatches) ==
  read_len \div (max_mismatches + 1)

seed_len_of(read_len, max_mismatches) ==
  Max(min_seed_len, read_len \div (max_mismatches + 1))

\* a check that leaves out the candidates with exactly K mismatches
WithinMismatches_Strict(mismatch_count, max_mismatches) ==
  mismatch_count < max_mismatches

\* whether a verified candidate is kept
WithinMismatches(mismatch_count, max_mismatches) ==
  mismatch_count <= max_mismatches

\* the body of the loop over hit_positions of one seed; st carries
\* checked_positions (the keys of the dict) and alignments
RECURSIVE ExtendHits(_, _, _, _, _, _)
ExtendHits(st, read, reference, hits, seed_offset, max_mismatches) ==
  IF hits = <<>> THEN st
  ELSE
    LET read_start == Head(hits) - seed_offset
        read_len == Len(read)
        rest == Tail(hits)
    IN IF read_start < 0 \/ read_start + read_len > Len(reference)
       THEN ExtendHits(st, read, reference, rest, seed_offset, max_mismatches)
       ELSE IF read_start \in st.checked
       THEN ExtendHits(st, read, reference, rest, seed_offset, max_mismatches)
       ELSE
         LET ref_segment == Slice(reference, read_start, read_start + read_len)
             mismatch_count == count_mismatches(read, ref_segment)
             rec == [position |-> read_start,
                     cigar |-> Str(read_len) \o <<"M">>,
                     mismatches |-> mismatch_count,
                     score |-> read_len - mismatch_count,
                     spliced |-> FALSE]
             st2 == [checked |-> st.checked \cup {read_start},
                     alignments |->
                       IF WithinMismatches(mismatch_count, max_mismatches)
                       THEN Append(st.alignments, rec)
                       ELSE st.alignments]
         IN ExtendHits(st2, read, reference, rest, seed_offset, max_mismatches)

\* the loop over seed_positions
\* ix is the index: [suffix_array, count_table, occurence]
RECURSIVE ExtendSeeds(_, _, _, _, _, _, _)
ExtendSeeds(st, read, reference, ix, max_mismatches, seed_len, seed_positions) ==
  IF seed_positions = <<>> THEN st
  ELSE
    LET seed_offset == Head(seed_positions)
        seed == Slice(read, seed_offset, seed_offset + seed_len)
        hit_positions == locate_pattern(seed, ix.suffix_array, ix.count_table,
                                        ix.occurence)
    IN ExtendSeeds(ExtendHits(st, read, reference, hit_positions, seed_offset,
                              max_mismatches),
                   read, reference, ix, max_mismatches, seed_len,
                   Tail(seed_positions))

seed_and_extend(read, reference, suffix_array, count_table, occurence, max_mismatches) ==
  LET read_len == Len(read)
      seed_len == seed_len_of(read_len, max_mismatches)
      seed_positions == Range(0, read_len - seed_len + 1, seed_len)
      ix == [suffix_array |-> suffix_array, count_table |-> count_table,
             occurence |-> occurence]
  IN ExtendSeeds([checked |-> {}, alignments |-> <<>>], read, reference, ix,
                 max_mismatches, seed_len, seed_positions).alignments

\* a check of the donor motif alone
check_canonical_splice_site_DonorOnly(reference, donor_position, acceptor_position) ==
  IF donor_position + 2 > Len(reference) \/ acceptor_position < 2 THEN FALSE
  ELSE Slice(reference, donor_position, donor_position + 2) = <<"G", "T">>

check_canonical_splice_site(reference, donor_position, acceptor_position) ==
  IF donor_position + 2 > Len(reference) \/ acceptor_position < 2 THEN FALSE
  ELSE /\ Slice(reference, donor_position, donor_position + 2) = <<"G", "T">>
       /\ Slice(reference, acceptor_position - 2, acceptor_position) = <<"A", "G">>

min_anchor == 8
max_intron == 500000
min_intron == 50

\* range(min_anchor, read_len - min_anchor): the split positions tried
split_positions(read_len) == Range(min_anchor, read_len - min_anchor, 1)

\* the record of a read split after left_len symbols, the left part at
\* left_pos and the right part at right_pos
SpliceRecord(read_len, left_pos, left_len, right_pos) ==
  [position |-> left_pos,
   cigar |-> Str(left_len) \o <<"M">> \o Str(right_pos - (left_pos + left_len))
             \o <<"N">> \o Str(read_len - left_len) \o <<"M">>,
   mismatches |-> 0,
   score |-> read_len,
   spliced |-> TRUE,
   intron_start |-> left_pos + left_len,
   intron_end |-> right_pos]

\* whether the gap from left_end to right_pos is taken for an intron
SpliceAccepts(reference, left_end, right_pos) ==
  /\ min_intron <= right_pos - left_end
  /\ right_pos - left_end <= max_intron
  /\ check_canonical_splice_site(reference, left_end, right_pos)

\* the lists of records in seqs, one after the other
RECURSIVE Concat(_)
Concat(seqs) ==
  IF Len(seqs) = 0 THEN <<>>
  ELSE Concat(SubSeq(seqs, 1, Len(seqs) - 1)) \o seqs[Len(seqs)]

\* the records the loop over right_positions appends for one left hit
SpliceRights(reference, read_len, left_pos, left_len, right_positions) ==
  LET kept == SelectSeq(right_positions,
                        LAMBDA right_pos :
                          SpliceAccepts(reference, left_pos + left_len, right_pos))
  IN [k \in 1..Len(kept) |-> SpliceRecord(read_len, left_pos, left_len, kept[k])]

\* the records the loop over left_positions appends for one split position
SpliceLefts(reference, read_len, left_len, left_positions, right_positions) ==
  Concat([k \in 1..Len(left_positions) |->
            SpliceRights(reference, read_len, left_positions[k], left_len,
                         right_positions)])

\* the records one iteration of the loop over split positions appends;
\* ix is the index: [suffix_array, count_table, occurence]
SpliceSplit(read, reference, ix, split_position) ==
  SpliceLefts(reference, Len(read), split_position,
              locate_pattern(Slice(read, 0, split_position), ix.suffix_array, ix.count_table, ix.occurence),
              locate_pattern(SliceFrom(read, split_position), ix.suffix_array, ix.count_table, ix.occurence))

\* the loop over split positions
SpliceSplits(read, reference, ix, splits) ==
  Concat([k \in 1..Len(splits) |-> SpliceSplit(read, reference, ix, splits[k])])

spliced_alignment(read, reference, suffix_array, count_table, occurence) ==
  SpliceSplits(read, reference,
               [suffix_array |-> suffix_array, count_table |-> count_table,
                occurence |-> occurence],
               split_positions(Len(read)))

\* list.sort(key = score, reverse = True): stable, by descending score
RECURSIVE InsertByScore(_, _)
InsertByScore(sorted, rec) ==
  IF sorted = <<>> THEN <<rec>>
  ELSE IF rec.score > Head(sorted).score THEN <<rec>> \o sorted
  ELSE <<Head(sorted)>> \o InsertByScore(Tail(sorted), rec)

\* a return that leaves the records in the order they were found
SortByScoreDesc_AsFound(recs) == recs

RECURSIVE SortByScoreDesc(_)
SortByScoreDesc(recs) ==
  IF recs = <<>> THEN <<>>
  ELSE InsertByScore(SortByScoreDesc(SubSeq(recs, 1, Len(recs) - 1)),
                     recs[Len(recs)])

\* the records hisat_align makes of the exact positions
ExactRecords(read, exact_positions) ==
  [k \in 1..Len(exact_positions) |->
     [position |-> exact_positions[k],
      cigar |-> Str(Len(read)) \o <<"M">>,
      mismatches |-> 0,
      score |-> Len(read),
      spliced |-> FALSE]]

(***************************************************************************)
(* bowtie_alignment.py                                                     *)
(***************************************************************************)
find_pattern(pattern, suffix_array, count_table, occurrence) ==
  LET r == FM_backward_search(pattern, count_table, occurrence, Len(suffix_array))
      low == r[1]
      high == r[2]
  IN IF low >= high \/ low < 0 THEN <<>>
     ELSE SortedInts(RangeOfSA(suffix_array, low, high))

\* cigar, current_op and count of compress_cigar once the first k operations
\* have been read, k >= 1
RECURSIVE CompressUpTo(_, _)
CompressUpTo(ops, k) ==
  IF k = 1 THEN [cigar |-> <<>>, current_op |-> ops[1], count |-> 1]
  ELSE LET st == CompressUpTo(ops, k - 1) IN
       IF ops[k] = st.current_op
       THEN [cigar |-> st.cigar, current_op |-> st.current_op,
             count |-> st.count + 1]
       ELSE [cigar |-> st.cigar \o Str(st.count) \o <<st.current_op>>,
             current_op |-> ops[k], count |-> 1]

\* a compression that leaves out the run still open at the end of the loop
compress_cigar_DropsLastRun(ops) ==
  IF Len(ops) = 0 THEN <<>> ELSE CompressUpTo(ops, Len(ops)).cigar

compress_cigar(ops) ==
  IF Len(ops) = 0 THEN <<>>
  ELSE LET st == CompressUpTo(ops, Len(ops))
       IN st.cigar \o Str(st.count) \o <<st.current_op>>

\* smith_waterman's default scores
default_match_score == 2
default_mismatch_penalty == -4
default_gap_extend == -1

DefaultScoring ==
  [match_score |-> default_match_score,
   mismatch_penalty |-> default_mismatch_penalty,
   gap_extend |-> default_gap_extend]

\* max(0, match, delete, insert)
Max4(a, b, c, d) == Max(Max(a, b), Max(c, d))

\* a cell that leaves out the alternative from the column to the left
CellScore_NoInsert(match, delete, insert) == Max4(0, match, delete, delete)

\* the value of a cell: max(0, match, delete, insert)
CellScore(match, delete, insert) == Max4(0, match, delete, insert)

\* a record that looks at the column to the left before the row above
TracebackCode_LeftFirst(value, match, delete, insert) ==
  IF value = match THEN 1
  ELSE IF value = insert THEN 2
  ELSE IF value = delete THEN 3
  ELSE 0

\* the alternative recorded for a cell: 1 diagonal, 3 from the row above,
\* 2 from the column to the left, 0 none
TracebackCode(value, match, delete, insert) ==
  IF value = match THEN 1
  ELSE IF value = delete THEN 3
  ELSE IF value = insert THEN 2
  ELSE 0

\* the three alternatives of the cell [row][col]; score_matrix[i][j] of the
\* code is score_matrix[i + 1][j + 1] here
MatchOf(score_matrix, query, target, sc, row, col) ==
  score_matrix[row][col] + (IF query[row] = target[col]
                            THEN sc.match_score ELSE sc.mismatch_penalty)

DeleteOf(score_matrix, sc, row, col) == score_matrix[row][col + 1] + sc.gap_extend

InsertOf(score_matrix, sc, row, col) == score_matrix[row + 1][col] + sc.gap_extend

\* score_matrix[row][col] as the inner loop sets it
CellValue(score_matrix, query, target, sc, row, col) ==
  CellScore(MatchOf(score_matrix, query, target, sc, row, col),
            DeleteOf(score_matrix, sc, row, col),
            InsertOf(score_matrix, sc, row, col))

\* traceback[row][col] as the inner loop sets it
CellCode(score_matrix, query, target, sc, row, col) ==
  TracebackCode(CellValue(score_matrix, query, target, sc, row, col),
                MatchOf(score_matrix, query, target, sc, row, col),
                DeleteOf(score_matrix, sc, row, col),
                InsertOf(score_matrix, sc, row, col))

\* a matrix of (query_len + 1) rows of (target_len + 1) zeros
ZeroMatrix(query_len, target_len) ==
  [r \in 1..(query_len + 1) |-> [c \in 1..(target_len + 1) |-> 0]]

\* whether a cell replaces the maximum seen so far
BeatsMax(value, max_score) == value > max_score

\* max_score, max_row, max_col after the cell [row][col] of this value
MaxAfter(best, value, row, col) ==
  IF BeatsMax(value, best.max_score)
  THEN [max_score |-> value, max_row |-> row, max_col |-> col]
  ELSE best

\* a maximum that starts below zero
NoMax_Negative == [max_score |-> -1, max_row |-> 0, max_col |-> 0]

\* max_score, max_row, max_col before the first cell
NoMax == [max_score |-> 0, max_row |-> 0, max_col |-> 0]

\* whether the traceback loop goes on at (row, col)
TraceContinues(score_matrix, traceback, row, col) ==
  /\ row > 0 /\ col > 0
  /\ score_matrix[row + 1][col + 1] > 0
  /\ traceback[row + 1][col + 1] \in {1, 2, 3}

\* a traceback that emits the gap codes the other way round
TraceStep_SwapsGapCodes(traceback, t) ==
  LET code == traceback[t.row + 1][t.col + 1] IN
  IF code = 1
  THEN [row |-> t.row - 1, col |-> t.col - 1, cigar_ops |-> Append(t.cigar_ops, "M")]
  ELSE IF code = 3
  THEN [row |-> t.row - 1, col |-> t.col, cigar_ops |-> Append(t.cigar_ops, "D")]
  ELSE [row |-> t.row, col |-> t.col - 1, cigar_ops |-> Append(t.cigar_ops, "I")]

\* one iteration of the traceback loop
TraceStep(traceback, t) ==
  LET code == traceback[t.row + 1][t.col + 1] IN
  IF code = 1
  THEN [row |-> t.row - 1, col |-> t.col - 1, cigar_ops |-> Append(t.cigar_ops, "M")]
  ELSE IF code = 3
  THEN [row |-> t.row - 1, col |-> t.col, cigar_ops |-> Append(t.cigar_ops, "I")]
  ELSE [row |-> t.row, col |-> t.col - 1, cigar_ops |-> Append(t.cigar_ops, "D")]

\* list.reverse()
Reverse(xs) == [k \in 1..Len(xs) |-> xs[Len(xs) + 1 - k]]

\* the tuple smith_waterman returns
SWResult(max_score, cigar_ops, row, col) ==
  [score |-> max_score, cigar |-> compress_cigar(Reverse(cigar_ops)),
   query_start |-> row, target_start |-> col]

\* whether the loop of extract_seeds has an iteration left
SeedFits(read, seed_len, offset) == offset <= Len(read) - seed_len

\* (read[offset:offset + seed_len], offset)
SeedAt(read, seed_len, offset) ==
  [seed |-> Slice(read, offset, offset + seed_len), offset |-> offset]

\* a loop that leaves its offset where it is
NextSeedOffset_Stays(offset, seed_interval) == offset

\* offset += seed_interval
NextSeedOffset(offset, seed_interval) == offset + seed_interval

\* the loop of extract_seeds from offset
RECURSIVE SeedsFrom(_, _, _, _)
SeedsFrom(read, seed_len, seed_interval, offset) ==
  IF offset <= Len(read) - seed_len
  THEN <<[seed |-> Slice(read, offset, offset + seed_len), offset |-> offset]>>
         \o SeedsFrom(read, seed_len, seed_interval, offset + seed_interval)
  ELSE <<>>

\* seeds taken at every offset, whatever the interval
extract_seeds_StrideOne(read, seed_len, seed_interval) ==
  SeedsFrom(read, seed_len, 1, 0)

\* a read shorter than a seed taken whole as a seed
extract_seeds_ShortReadAsSeed(read, seed_len, seed_interval) ==
  IF 0 < Len(read) /\ Len(read) < seed_len
  THEN <<[seed |-> read, offset |-> 0]>>
  ELSE SeedsFrom(read, seed_len, seed_interval, 0)

extract_seeds(read, seed_len, seed_interval) ==
  SeedsFrom(read, seed_len, seed_interval, 0)

\* whether a hit of a seed yields a new candidate
NewCandidate(cands, read_start, ref_len, read_len) ==
  /\ 0 <= read_start
  /\ read_start <= ref_len - read_len
  /\ read_start \notin {cands[j] : j \in 1..Len(cands)}

\* candidate_positions once the first k positions of one seed have been
\* read, cands being candidate_positions before the seed
RECURSIVE CandidatesOfHits(_, _, _, _, _, _)
CandidatesOfHits(cands, positions, k, offset, ref_len, read_len) ==
  IF k = 0 THEN cands
  ELSE LET before == CandidatesOfHits(cands, positions, k - 1, offset, ref_len, read_len) IN
       IF NewCandidate(before, positions[k] - offset, ref_len, read_len)
       THEN Append(before, positions[k] - offset)
       ELSE before

\* one iteration of the loop over the seeds
CandidatesOfSeed(cands, seed, positions, ref_len, read_len) ==
  CandidatesOfHits(cands, positions, Len(positions), seed.offset, ref_len, read_len)

\* the extra reference symbols of the window handed to smith_waterman
window_pad == 20

\* reference[position:position + len(read) + 20]
RefRegion(reference, position, read_len) ==
  Slice(reference, position, position + read_len + window_pad)

\* a record that reports the candidate start, not where the alignment starts
CandidateRecord_CandidateStart(position, sw) ==
  [position |-> position, cigar |-> sw.cigar, score |-> sw.score]

\* the record bowtie2_align makes of a candidate and smith_waterman's result
CandidateRecord(position, sw) ==
  [position |-> position + sw.target_start, cigar |-> sw.cigar, score |-> sw.score]

\* whether the candidate's record is kept
KeepsCandidate(sw) == sw.score > 0

mapq_cap == 60
mapq_step == 10

\* an alternative without the floor at 0
MapqOf_NoFloor(alignment_index, score) ==
  IF alignment_index = 0 THEN Min(mapq_cap, score)
  ELSE mapq_cap - mapq_step * alignment_index

\* the MAPQ of the record at 0-based alignment_index
MapqOf(alignment_index, score) ==
  IF alignment_index = 0 THEN Min(mapq_cap, score)
  ELSE Max(0, mapq_cap - mapq_step * alignment_index)

\* the loop that sets alignment["mapq"]
AssignMapq(recs) ==
  [k \in 1..Len(recs) |->
     [position |-> recs[k].position, cigar |-> recs[k].cigar,
      score |-> recs[k].score, mapq |-> MapqOf(k - 1, recs[k].score)]]

(***************************************************************************)
(* run_alignment_tests.py, and reverse_complement of shared_utils.py       *)
(***************************************************************************)
\* complement.get(base, "N")
Complement(base) ==
  CASE base = "A" -> "T" [] base = "T" -> "A" [] base = "G" -> "C"
    [] base = "C" -> "G" [] OTHER -> "N"

reverse_complement(seq) ==
  [k \in 1..Len(seq) |-> Complement(seq[Len(seq) + 1 - k])]

\* read.get('quality', '*')
QualityOf(rd) == IF "quality" \in DOMAIN rd THEN rd.quality ELSE <<"*">>

\* best.get('mapq', min(60, best.get('score', 60)))
BestMapq(best) ==
  IF "mapq" \in DOMAIN best THEN best.mapq
  ELSE Min(60, IF "score" \in DOMAIN best THEN best.score ELSE 60)

\* an iteration that takes a read for aligned only when it has two records
HasAlignment_MoreThanOne(alns) == Len(alns) > 1

\* len(alns) > 0
HasAlignment(alns) == Len(alns) > 0

\* the entry run_alignment_test appends for the read rd once align_func
\* has returned alns
RunEntry(rd, alns) ==
  IF HasAlignment(alns)
  THEN [read_id |-> rd.id,
        position |-> alns[1].position,
        cigar |-> alns[1].cigar,
        mapq |-> BestMapq(alns[1]),
        sequence |-> rd.sequence,
        quality |-> QualityOf(rd),
        unmapped |-> FALSE]
  ELSE [read_id |-> rd.id,
        sequence |-> rd.sequence,
        quality |-> QualityOf(rd),
        unmapped |-> TRUE]

\* whether the iteration calls align_func again, on the reverse complement
RetriesReverse(alns, reverse) == Len(alns) = 0 /\ reverse

(***************************************************************************)
(* The state: the arguments of the call in progress, the FM-index its      *)
(* caller built, and the locals of the function called.                    *)
(***************************************************************************)
VARIABLES
  pc,                  \* the place the call in progress has reached
  entry,               \* the function called
  read,                \* the read
  reference,           \* the reference
  max_mismatches,      \* K of hisat_align and seed_and_extend
  seed_len,            \* bowtie2_align's seed_len
  seed_interval,       \* bowtie2_align's seed_interval
  query,               \* smith_waterman's arguments
  target,
  scoring,
  suffix_array,        \* the FM-index
  bwt,
  count_table,
  occurrence,
  occ_index,           \* i of build_occurrence_table's loop
  exact_positions,     \* hisat_align's exact_positions
  tiers,               \* what hisat_align printed: the tiers it entered,
                       \* each with the number of records it produced
  seeds,               \* bowtie2_align's seeds
  next_seed,           \* how many of them the seed loop has taken
  candidate_positions, \* bowtie2_align's candidate_positions
  next_candidate,      \* how many of them the extension loop has taken
  alignments,          \* the record list of the call
  score_matrix,        \* smith_waterman's locals
  traceback,
  best,                \* max_score, max_row, max_col
  row,
  col,
  cigar_ops,
  sw_result,           \* what smith_waterman returned
  ops,                 \* compress_cigar's argument
  cigar,               \* what compress_cigar returned
  in_order_result,     \* what bowtie2_align returned, kept while the call
                       \* is repeated on a reordered seed list
  reads,               \* run_alignment_test's arguments
  align_func,
  try_reverse,
  run_index,           \* i of its loop over the reads
  run_call,            \* which call of align_func the iteration is in
  run_alignments,      \* its alignments list
  aligned_count,
  offset               \* offset of extract_seeds's loop

aligner_args == <<read, reference, max_mismatches, seed_len, seed_interval>>
sw_args == <<query, target, scoring>>
index == <<suffix_array, bwt, count_table, occurrence, occ_index>>
hisat_locals == <<exact_positions, tiers>>
bowtie_locals == <<seeds, next_seed, candidate_positions, next_candidate>>
sw_locals == <<score_matrix, traceback, best, row, col, cigar_ops, sw_result>>
cigar_vars == <<ops, cigar>>
run_args == <<reads, align_func, try_reverse>>
run_locals == <<run_index, run_call, run_alignments, aligned_count>>
run_vars == <<run_args, run_locals>>

vars == <<pc, entry, aligner_args, sw_args, index, hisat_locals, bowtie_locals, alignments, sw_locals, cigar_vars, in_order_result, run_vars, offset>>

(***************************************************************************)
(* Inputs.                                                                 *)
(***************************************************************************)
\* a string literal of the alphabet, written as a tuple
RefExample ==
  <<"A", "C", "G", "T", "A", "C", "G", "T", "T", "T", "C", "G", "A", "T",
    "C", "G", "A">>

\* hisat_align's default max_mismatches
default_max_mismatches == 2

\* every reference and read over the alphabet, up to the bounds
SmallInputs ==
  {[read |-> q, reference |-> r, max_mismatches |-> default_max_mismatches] :
     q \in Strs(Sigma, 0, MaxReadLen), r \in Strs(Sigma, 0, MaxRefLen)}

\* a reference holding a 16-symbol word and a copy of it that differs in
\* one symbol
RefRepeat ==
  SubSeq(RefExample, 1, 16) \o SubSeq(RefExample, 1, 12) \o <<"C">>
    \o SubSeq(RefExample, 14, 16)

\* the symbol a substitution puts in place of c
Substitute(c) ==
  CASE c = "A" -> "C"
    [] c = "C" -> "G"
    [] c = "G" -> "T"
    [] c = "T" -> "N"
    [] c = "N" -> "A"

\* the subsets of U of at most k elements
RECURSIVE SubsetsUpTo(_, _)
SubsetsUpTo(U, k) ==
  IF k = 0 THEN {{}}
  ELSE LET prev == SubsetsUpTo(U, k - 1)
       IN prev \cup {S \cup {x} : S \in prev, x \in U}

\* reference[p : p + len] with the offsets in S substituted
Substituted(ref, p, len, S) ==
  [i \in 1..len |->
     IF (i - 1) \in S THEN Substitute(ref[p + i]) ELSE ref[p + i]]

\* the read lengths and start offsets of the substituted reads: shorter
\* than a seed, one seed, two seeds, three seeds
TolerantReadLens == {7, 8, 16, 24}
TolerantStarts == {0, 4, 8, 16}

\* the offsets of a read that may be substituted: the ends and the middle
\* of each 8-symbol seed window
SubOffsets == {0, 3, 7, 8, 12, 15, 16, 23}

\* reads cut from a reference at a start offset, with at most MaxSubs
\* substitutions, aligned with K in 0..MaxSubs
TolerantInputs ==
  UNION {
    {[read |-> Substituted(ref, p, len, S), reference |-> ref,
      max_mismatches |-> K] :
        S \in SubsetsUpTo(SubOffsets \cap 0..(len - 1), MaxSubs), K \in 0..MaxSubs} :
    <<ref, len, p>> \in
      {t \in {RefExample, RefRepeat} \X TolerantReadLens \X TolerantStarts :
         t[3] + t[2] <= Len(t[1])}}

\* n copies of symbol c
Rep(c, n) == [i \in 1..n |-> c]

Left9 == <<"A", "C", "G", "T", "T", "G", "C", "A", "A">>
Right9 == <<"T", "C", "A", "G", "G", "A", "T", "C", "C">>

\* a reference with one intron: a left anchor, a donor motif, filler, an
\* acceptor motif and a right anchor; gap is the length from the end of
\* the left anchor to the start of the right anchor
SpliceReference(pre, left, donor, gap, acceptor, right) ==
  pre \o left \o donor \o Rep("C", gap - 4) \o acceptor \o right
    \o <<"C", "A">>

\* reads made of the two anchors, over introns at and around the minimum
\* length, with and without the canonical motifs
SpliceInputs ==
  {[read |-> SubSeq(Left9, 1, ll) \o SubSeq(Right9, 1, rl),
    reference |-> SpliceReference(pre, SubSeq(Left9, 1, ll), donor, gap,
                                  acceptor, SubSeq(Right9, 1, rl)),
    max_mismatches |-> default_max_mismatches] :
      pre \in {<<>>, <<"C", "A">>},
      ll \in {min_anchor, min_anchor + 1},
      rl \in {min_anchor, min_anchor + 1},
      donor \in {<<"G", "T">>, <<"G", "C">>},
      acceptor \in {<<"A", "G">>, <<"A", "C">>},
      gap \in {min_intron - 1, min_intron, min_intron + 1}}

HisatInputs == TolerantInputs \cup SpliceInputs

\* bowtie2_align's default seed_len and seed_interval
default_seed_len == 22
default_seed_interval == 15

DefaultSeeding ==
  [seed_len |-> default_seed_len, seed_interval |-> default_seed_interval]

\* the two-symbol alphabet of the exhaustively enumerated bowtie2_align and
\* smith_waterman inputs
SigmaAC == {"A", "C"}

\* every read and reference over SigmaAC within the bounds
BowtieSmallInputs ==
  {[read |-> q, reference |-> r, max_mismatches |-> default_max_mismatches] :
     q \in Strs(SigmaAC, 0, MaxReadLen), r \in Strs(SigmaAC, 0, MaxRefLen)}

\* every seed length and stride up to the longest read
SmallSeedings ==
  {[seed_len |-> sl, seed_interval |-> si] :
     sl \in 1..MaxReadLen, si \in 1..MaxReadLen}

\* a reference that holds the one-symbol read nine times, and the example
\* reference with the reads of 7 and 8 symbols cut from it
BowtieLongInputs ==
  {[read |-> <<"A">>, reference |-> Rep("A", 9),
    max_mismatches |-> default_max_mismatches]}
  \cup {inp \in TolerantInputs :
          /\ inp.reference = RefExample
          /\ Len(inp.read) <= 8
          /\ inp.max_mismatches = default_max_mismatches}

\* a read of 31 symbols, long enough for a seed of the default length and
\* for a score above 60
Read31 == RefExample \o <<"G","G","C","A","T","T","A","C","A","G","C","T","A","A">>

\* the read twice, the second copy with the symbol at offset 25 substituted
RefTwice == Read31 \o Substituted(Read31, 0, Len(Read31), {25})

\* the read of 31 symbols, whole and cut to its first 24 and 22, against
\* the reference that holds it twice and against itself
BowtieDefaultInputs ==
  {[read |-> SubSeq(Read31, 1, n), reference |-> r,
    max_mismatches |-> default_max_mismatches] :
     n \in {22, 24, 31}, r \in {Read31, RefTwice}}

LongSeedings ==
  {[seed_len |-> 1, seed_interval |-> 1], [seed_len |-> 3, seed_interval |-> 2]}

\* the scores smith_waterman is called with: match positive, mismatch and
\* gap negative
Scorings ==
  {DefaultScoring,
   [match_score |-> 1, mismatch_penalty |-> -1, gap_extend |-> -1],
   [match_score |-> 3, mismatch_penalty |-> -1, gap_extend |-> -2]}

\* the locals of a call that has not begun
NoLocals ==
  /\ entry = "none"
  /\ suffix_array = <<>>
  /\ bwt = <<>>
  /\ count_table = <<>>
  /\ occurrence = <<>>
  /\ occ_index = 0
  /\ exact_positions = <<>>
  /\ tiers = <<>>
  /\ seeds = <<>>
  /\ next_seed = 0
  /\ candidate_positions = <<>>
  /\ next_candidate = 0
  /\ alignments = <<>>
  /\ score_matrix = <<>>
  /\ traceback = <<>>
  /\ best = NoMax
  /\ row = 0
  /\ col = 0
  /\ cigar_ops = <<>>
  /\ sw_result = <<>>
  /\ cigar = <<>>
  /\ in_order_result = <<>>
  /\ run_index = 0
  /\ run_call = "none"
  /\ run_alignments = <<>>
  /\ aligned_count = 0
  /\ offset = 0

\* a call of an aligner on inp, seeded as sd
InitCall(inp, sd) ==
  /\ pc = "start"
  /\ read = inp.read
  /\ reference = inp.reference
  /\ max_mismatches = inp.max_mismatches
  /\ seed_len = sd.seed_len
  /\ seed_interval = sd.seed_interval
  /\ query = <<>>
  /\ target = <<>>
  /\ scoring = DefaultScoring
  /\ ops = <<>>
  /\ reads = <<>>
  /\ align_func = "none"
  /\ try_reverse = FALSE
  /\ NoLocals

InitIndex == \E inp \in SmallInputs : InitCall(inp, DefaultSeeding)

InitHisat == \E inp \in HisatInputs : InitCall(inp, DefaultSeeding)

InitBowtie ==
  \/ \E inp \in BowtieSmallInputs, sd \in SmallSeedings : InitCall(inp, sd)
  \/ \E inp \in BowtieLongInputs, sd \in LongSeedings : InitCall(inp, sd)
  \/ \E inp \in BowtieDefaultInputs : InitCall(inp, DefaultSeeding)

\* the longest read of the hisat_align family that both aligners are run on
AlignReadLen == 16

\* both aligners: on the inputs of bowtie2_align, and on the reads of
\* hisat_align's family up to AlignReadLen
InitAlign ==
  \/ InitBowtie
  \/ \E inp \in {t \in TolerantInputs : Len(t.read) <= AlignReadLen} : InitCall(inp, DefaultSeeding)

\* both aligners on every read and reference over SigmaAC no longer than
\* the longest read: a read's symbol is absent from a reference made of the other
\* symbol alone, and from the empty reference
InitAlignSmall ==
  \E inp \in {t \in BowtieSmallInputs : Len(t.reference) <= MaxReadLen}, sd \in LongSeedings : InitCall(inp, sd)

\* seedings under which the loop of extract_seeds runs twice, once, and
\* not at all on the short reads
LoopSeedings ==
  {[seed_len |-> 1, seed_interval |-> 1],
   [seed_len |-> 1, seed_interval |-> 2],
   [seed_len |-> 2, seed_interval |-> 1]}

\* both aligners on the short reads and references, with no mismatch
\* allowed and with the default
InitLoops ==
  \E inp \in {t \in BowtieSmallInputs : Len(t.reference) <= MaxReadLen}, sd \in LoopSeedings, k \in {0, default_max_mismatches} :
    InitCall([inp EXCEPT !.max_mismatches = k], sd)

\* bowtie2_align on every read within the bounds and every reference over
\* SigmaAC one symbol longer than them, so that a seed can hit at both ends
\* of the reference
InitReorder ==
  \E q \in Strs(SigmaAC, 0, MaxReadLen), r \in Strs(SigmaAC, 0, MaxRefLen + 1), sd \in SmallSeedings :
    InitCall([read |-> q, reference |-> r, max_mismatches |-> default_max_mismatches], sd)

\* a call of smith_waterman on its own
InitSW ==
  \E q \in Strs(SigmaAC, 0, MaxRefLen + 1), t \in Strs(SigmaAC, 0, MaxRefLen + 1), sc \in Scorings :
    /\ pc = "sw_start"
    /\ read = <<>>
    /\ reference = <<>>
    /\ max_mismatches = default_max_mismatches
    /\ seed_len = default_seed_len
    /\ seed_interval = default_seed_interval
    /\ query = q
    /\ target = t
    /\ scoring = sc
    /\ ops = <<>>
    /\ reads = <<>>
    /\ align_func = "none"
    /\ try_reverse = FALSE
    /\ NoLocals

\* a call of smith_waterman on its own, on the strings short enough for
\* every alignment of every pair of substrings to be enumerated
InitSWShort ==
  \E q \in Strs(SigmaAC, 0, MaxReadLen + 1), t \in Strs(SigmaAC, 0, MaxReadLen + 1), sc \in Scorings :
    /\ pc = "sw_start"
    /\ read = <<>>
    /\ reference = <<>>
    /\ max_mismatches = default_max_mismatches
    /\ seed_len = default_seed_len
    /\ seed_interval = default_seed_interval
    /\ query = q
    /\ target = t
    /\ scoring = sc
    /\ ops = <<>>
    /\ reads = <<>>
    /\ align_func = "none"
    /\ try_reverse = FALSE
    /\ NoLocals

\* the longest operation list of the exhaustively enumerated inputs of
\* compress_cigar
MaxOpsLen == 4

\* the edit codes of an operation list
CigarCodes == {"M", "I", "D", "N"}

\* the run lengths of the longer operation lists: counts of one and of two
\* digits, and runs that merge into counts of 11, 19, 20 and 30
RunLens == {1, 9, 10}

\* every operation list up to MaxOpsLen, and the lists of three runs
OpsInputs ==
  Strs(CigarCodes, 0, MaxOpsLen)
    \cup {Rep(c1, n1) \o Rep(c2, n2) \o Rep(c3, n3) :
            <<c1, c2, c3>> \in CigarCodes \X CigarCodes \X CigarCodes,
            <<n1, n2, n3>> \in RunLens \X RunLens \X RunLens}

\* a call of compress_cigar on its own
InitCigar ==
  \E o \in OpsInputs :
    /\ pc = "cigar_start"
    /\ read = <<>>
    /\ reference = <<>>
    /\ max_mismatches = default_max_mismatches
    /\ seed_len = default_seed_len
    /\ seed_interval = default_seed_interval
    /\ query = <<>>
    /\ target = <<>>
    /\ scoring = DefaultScoring
    /\ ops = o
    /\ reads = <<>>
    /\ align_func = "none"
    /\ try_reverse = FALSE
    /\ NoLocals

\* the longest read list run_alignment_test is given
MaxReads == 2

\* its reads: the empty one, one that occurs in the reference of the runs,
\* one whose reverse complement does, and one that holds only a symbol
\* absent from the reference, as its reverse complement does
RunSequences == {<<>>, <<"A", "C">>, <<"G", "T">>, <<"N">>}

\* the read dictionary of the k-th read: the odd ones carry a quality
\* string, the even ones none
ReadDict(k, s) ==
  IF k % 2 = 1
  THEN [id |-> <<"r">> \o Str(k), sequence |-> s, quality |-> Rep("I", Len(s))]
  ELSE [id |-> <<"r">> \o Str(k), sequence |-> s]

\* every list of up to MaxReads of them
ReadLists ==
  UNION {{[k \in 1..n |-> ReadDict(k, f[k])] : f \in [1..n -> RunSequences]} : n \in 0..MaxReads}

\* the empty reference, and one that holds AC and its prefix A twice
RunReferences == {<<>>, <<"A", "A", "C">>}

\* the keyword arguments of align_func: the default max_mismatches, and the
\* shortest seed at every offset
RunSeeding == [seed_len |-> 1, seed_interval |-> 1]

\* a call of run_alignment_test with either aligner, with and without the
\* retry on the reverse complement
InitRun ==
  \E rs \in ReadLists, r \in RunReferences, f \in {"hisat_align", "bowtie2_align"}, rev \in BOOLEAN :
    /\ pc = "run_loop"
    /\ read = <<>>
    /\ reference = r
    /\ max_mismatches = default_max_mismatches
    /\ seed_len = RunSeeding.seed_len
    /\ seed_interval = RunSeeding.seed_interval
    /\ query = <<>>
    /\ target = <<>>
    /\ scoring = DefaultScoring
    /\ ops = <<>>
    /\ reads = rs
    /\ align_func = f
    /\ try_reverse = rev
    /\ NoLocals

(***************************************************************************)
(* The index construction both aligners begin with.                        *)
(***************************************************************************)
\* a reference indexed without its terminator
ref_with_term_NoSentinel(ref) == ref

\* reference + "$"
ref_with_term(ref) == ref \o <<"$">>

\* each table is computed once, from the tables built before it
BuildIndex ==
  /\ pc = "start"
  /\ \E sa \in {build_suffix_array(ref_with_term(reference))} :
       \E b \in {build_BWT(ref_with_term(reference), sa)} :
         /\ suffix_array' = sa
         /\ bwt' = b
         /\ count_table' = build_count_table(b)
         /\ occurrence' = ZeroOccurrence(b)
  /\ occ_index' = 0
  /\ pc' = "occ_fill"
  /\ UNCHANGED <<entry, aligner_args, sw_args, hisat_locals, bowtie_locals, alignments, sw_locals, cigar_vars, in_order_result, run_vars, offset>>

\* one iteration of the loop of build_occurrence_table over the offsets
OccFill ==
  /\ pc = "occ_fill"
  /\ occ_index < Len(bwt)
  /\ occurrence' = OccAfterIteration(occurrence, bwt, occ_index)
  /\ occ_index' = occ_index + 1
  /\ UNCHANGED <<pc, entry, aligner_args, sw_args, suffix_array, bwt, count_table, hisat_locals, bowtie_locals, alignments, sw_locals, cigar_vars, in_order_result, run_vars, offset>>

\* return occ
OccReturn ==
  /\ pc = "occ_fill"
  /\ occ_index >= Len(bwt)
  /\ pc' = "indexed"
  /\ UNCHANGED <<entry, aligner_args, sw_args, index, hisat_locals, bowtie_locals, alignments, sw_locals, cigar_vars, in_order_result, run_vars, offset>>

(***************************************************************************)
(* hisat_align, tier by tier.                                              *)
(***************************************************************************)
HisatExact ==
  /\ pc = "indexed"
  /\ entry' = "hisat_align"
  /\ exact_positions' = locate_pattern(read, suffix_array, count_table, occurrence)
  /\ alignments' = ExactRecords(read, exact_positions')
  /\ tiers' = <<[tier |-> "EXACT", n |-> Len(alignments')]>>
  /\ pc' = "exact_done"
  /\ UNCHANGED <<aligner_args, sw_args, index, bowtie_locals, sw_locals, cigar_vars, in_order_result, run_vars, offset>>

\* a fall-through that does not look at the records
NoRecordsYet_Always(recs) == TRUE

\* whether hisat_align falls through to the next tier
NoRecordsYet(recs) == Len(recs) = 0

HisatTolerant ==
  /\ pc = "exact_done"
  /\ IF NoRecordsYet(alignments)
     THEN /\ alignments' = seed_and_extend(read, reference, suffix_array,
                                           count_table, occurrence,
                                           max_mismatches)
          /\ tiers' = Append(tiers, [tier |-> "TOLERANT",
                                     n |-> Len(alignments')])
     ELSE UNCHANGED <<alignments, tiers>>
  /\ pc' = "tolerant_done"
  /\ UNCHANGED <<entry, aligner_args, sw_args, index, exact_positions, bowtie_locals, sw_locals, cigar_vars, in_order_result, run_vars, offset>>

HisatSpliced ==
  /\ pc = "tolerant_done"
  /\ IF NoRecordsYet(alignments)
     THEN /\ alignments' = spliced_alignment(read, reference, suffix_array,
                                             count_table, occurrence)
          /\ tiers' = Append(tiers, [tier |-> "SPLICED",
                                     n |-> Len(alignments')])
     ELSE UNCHANGED <<alignments, tiers>>
  /\ pc' = "spliced_done"
  /\ UNCHANGED <<entry, aligner_args, sw_args, index, exact_positions, bowtie_locals, sw_locals, cigar_vars, in_order_result, run_vars, offset>>

HisatReturn ==
  /\ pc = "spliced_done"
  /\ alignments' = SortByScoreDesc(alignments)
  /\ pc' = "done"
  /\ UNCHANGED <<entry, aligner_args, sw_args, index, hisat_locals, bowtie_locals, sw_locals, cigar_vars, in_order_result, run_vars, offset>>

(***************************************************************************)
(* The engines of hisat_alignment.py called on their own.                  *)
(***************************************************************************)
CallSeedAndExtend ==
  /\ pc = "indexed"
  /\ entry' = "seed_and_extend"
  /\ alignments' = seed_and_extend(read, reference, suffix_array, count_table,
                                   occurrence, max_mismatches)
  /\ pc' = "done"
  /\ UNCHANGED <<aligner_args, sw_args, index, hisat_locals, bowtie_locals, sw_locals, cigar_vars, in_order_result, run_vars, offset>>

CallSplicedAlignment ==
  /\ pc = "indexed"
  /\ entry' = "spliced_alignment"
  /\ alignments' = spliced_alignment(read, reference, suffix_array,
                                     count_table, occurrence)
  /\ pc' = "done"
  /\ UNCHANGED <<aligner_args, sw_args, index, hisat_locals, bowtie_locals, sw_locals, cigar_vars, in_order_result, run_vars, offset>>

(***************************************************************************)
(* smith_waterman: the fill cell by cell, the traceback iteration by        *)
(* iteration, the return.  It runs on its own, or called by bowtie2_align. *)
(***************************************************************************)
SWStart ==
  /\ pc = "sw_start"
  /\ entry' = IF entry = "none" THEN "smith_waterman" ELSE entry
  /\ score_matrix' = ZeroMatrix(Len(query), Len(target))
  /\ traceback' = ZeroMatrix(Len(query), Len(target))
  /\ best' = NoMax
  /\ row' = 1
  /\ col' = 1
  /\ cigar_ops' = <<>>
  /\ pc' = "sw_fill"
  /\ UNCHANGED <<aligner_args, sw_args, index, hisat_locals, bowtie_locals, alignments, sw_result, cigar_vars, in_order_result, run_vars, offset>>

\* whether the two loops of the fill have a cell left: none when the target
\* is empty
FillHasCell == row <= Len(query) /\ col <= Len(target)

\* one iteration of the inner loop: the cell [row][col], its traceback code
\* and the update of the maximum
SWFillCell ==
  /\ pc = "sw_fill"
  /\ FillHasCell
  /\ score_matrix' = [score_matrix EXCEPT ![row + 1][col + 1] = CellValue(score_matrix, query, target, scoring, row, col)]
  /\ traceback' = [traceback EXCEPT ![row + 1][col + 1] = CellCode(score_matrix, query, target, scoring, row, col)]
  /\ best' = MaxAfter(best, score_matrix'[row + 1][col + 1], row, col)
  /\ row' = IF col < Len(target) THEN row ELSE row + 1
  /\ col' = IF col < Len(target) THEN col + 1 ELSE 1
  /\ UNCHANGED <<pc, entry, aligner_args, sw_args, index, hisat_locals, bowtie_locals, alignments, cigar_ops, sw_result, cigar_vars, in_order_result, run_vars, offset>>

\* row, col = max_row, max_col
SWTraceStart ==
  /\ pc = "sw_fill"
  /\ ~FillHasCell
  /\ row' = best.max_row
  /\ col' = best.max_col
  /\ cigar_ops' = <<>>
  /\ pc' = "sw_trace"
  /\ UNCHANGED <<entry, aligner_args, sw_args, index, hisat_locals, bowtie_locals, alignments, score_matrix, traceback, best, sw_result, cigar_vars, in_order_result, run_vars, offset>>

SWTraceStep ==
  /\ pc = "sw_trace"
  /\ TraceContinues(score_matrix, traceback, row, col)
  /\ row' = TraceStep(traceback, [row |-> row, col |-> col, cigar_ops |-> cigar_ops]).row
  /\ col' = TraceStep(traceback, [row |-> row, col |-> col, cigar_ops |-> cigar_ops]).col
  /\ cigar_ops' = TraceStep(traceback, [row |-> row, col |-> col, cigar_ops |-> cigar_ops]).cigar_ops
  /\ UNCHANGED <<pc, entry, aligner_args, sw_args, index, hisat_locals, bowtie_locals, alignments, score_matrix, traceback, best, sw_result, cigar_vars, in_order_result, run_vars, offset>>

SWReturn ==
  /\ pc = "sw_trace"
  /\ ~TraceContinues(score_matrix, traceback, row, col)
  /\ sw_result' = SWResult(best.max_score, cigar_ops, row, col)
  /\ pc' = IF entry = "smith_waterman" THEN "done" ELSE "sw_returned"
  /\ UNCHANGED <<entry, aligner_args, sw_args, index, hisat_locals, bowtie_locals, alignments, score_matrix, traceback, best, row, col, cigar_ops, cigar_vars, in_order_result, run_vars, offset>>

(***************************************************************************)
(* bowtie2_align, stage by stage.                                          *)
(***************************************************************************)
BowtieSeeds ==
  /\ pc = "indexed"
  /\ entry' = "bowtie2_align"
  /\ seeds' = extract_seeds(read, seed_len, seed_interval)
  /\ next_seed' = 0
  /\ candidate_positions' = <<>>
  /\ pc' = "seeding"
  /\ UNCHANGED <<aligner_args, sw_args, index, hisat_locals, next_candidate, alignments, sw_locals, cigar_vars, in_order_result, run_vars, offset>>

\* the call of extract_seeds taken iteration by iteration: seeds = [],
\* offset = 0
ExtractSeedsStart ==
  /\ pc = "indexed"
  /\ entry' = "bowtie2_align"
  /\ seeds' = <<>>
  /\ offset' = 0
  /\ pc' = "extracting"
  /\ UNCHANGED <<aligner_args, sw_args, index, hisat_locals, next_seed, candidate_positions, next_candidate, alignments, sw_locals, cigar_vars, in_order_result, run_vars>>

\* one iteration of its while loop
ExtractSeed ==
  /\ pc = "extracting"
  /\ SeedFits(read, seed_len, offset)
  /\ seeds' = Append(seeds, SeedAt(read, seed_len, offset))
  /\ offset' = NextSeedOffset(offset, seed_interval)
  /\ UNCHANGED <<pc, entry, aligner_args, sw_args, index, hisat_locals, next_seed, candidate_positions, next_candidate, alignments, sw_locals, cigar_vars, in_order_result, run_vars>>

\* return seeds, and candidate_positions = []
ExtractSeedsReturn ==
  /\ pc = "extracting"
  /\ ~SeedFits(read, seed_len, offset)
  /\ next_seed' = 0
  /\ candidate_positions' = <<>>
  /\ pc' = "seeding"
  /\ UNCHANGED <<entry, aligner_args, sw_args, index, hisat_locals, seeds, next_candidate, alignments, sw_locals, cigar_vars, in_order_result, run_vars, offset>>

\* one iteration of the loop over the seeds
BowtieSeedHits ==
  /\ pc = "seeding"
  /\ next_seed < Len(seeds)
  /\ candidate_positions' =
       CandidatesOfSeed(candidate_positions, seeds[next_seed + 1],
                        find_pattern(seeds[next_seed + 1].seed, suffix_array, count_table, occurrence),
                        Len(reference), Len(read))
  /\ next_seed' = next_seed + 1
  /\ UNCHANGED <<pc, entry, aligner_args, sw_args, index, hisat_locals, seeds, next_candidate, alignments, sw_locals, cigar_vars, in_order_result, run_vars, offset>>

\* alignments = []
BowtieCandidates ==
  /\ pc = "seeding"
  /\ next_seed >= Len(seeds)
  /\ next_candidate' = 0
  /\ alignments' = <<>>
  /\ pc' = "extending"
  /\ UNCHANGED <<entry, aligner_args, sw_args, index, hisat_locals, seeds, next_seed, candidate_positions, sw_locals, cigar_vars, in_order_result, run_vars, offset>>

\* the loop over candidate_positions: the call of smith_waterman on the
\* next candidate's window
BowtieExtend ==
  /\ pc = "extending"
  /\ next_candidate < Len(candidate_positions)
  /\ query' = read
  /\ target' = RefRegion(reference, candidate_positions[next_candidate + 1], Len(read))
  /\ scoring' = DefaultScoring
  /\ pc' = "sw_start"
  /\ UNCHANGED <<entry, aligner_args, index, hisat_locals, bowtie_locals, alignments, sw_locals, cigar_vars, in_order_result, run_vars, offset>>

\* the rest of the iteration, once smith_waterman has returned
BowtieRecord ==
  /\ pc = "sw_returned"
  /\ alignments' =
       IF KeepsCandidate(sw_result)
       THEN Append(alignments, CandidateRecord(candidate_positions[next_candidate + 1], sw_result))
       ELSE alignments
  /\ next_candidate' = next_candidate + 1
  /\ pc' = "extending"
  /\ UNCHANGED <<entry, aligner_args, sw_args, index, hisat_locals, seeds, next_seed, candidate_positions, sw_locals, cigar_vars, in_order_result, run_vars, offset>>

BowtieSort ==
  /\ pc = "extending"
  /\ next_candidate >= Len(candidate_positions)
  /\ alignments' = SortByScoreDesc(alignments)
  /\ pc' = "sorted"
  /\ UNCHANGED <<entry, aligner_args, sw_args, index, hisat_locals, bowtie_locals, sw_locals, cigar_vars, in_order_result, run_vars, offset>>

BowtieMapq ==
  /\ pc = "sorted"
  /\ alignments' = AssignMapq(alignments)
  /\ pc' = "done"
  /\ UNCHANGED <<entry, aligner_args, sw_args, index, hisat_locals, bowtie_locals, sw_locals, cigar_vars, in_order_result, run_vars, offset>>

(***************************************************************************)
(* compress_cigar called on its own.                                       *)
(***************************************************************************)
CallCompressCigar ==
  /\ pc = "cigar_start"
  /\ entry' = "compress_cigar"
  /\ cigar' = compress_cigar(ops)
  /\ pc' = "done"
  /\ UNCHANGED <<aligner_args, sw_args, index, hisat_locals, bowtie_locals, alignments, sw_locals, ops, in_order_result, run_vars, offset>>

(***************************************************************************)
(* bowtie2_align run again from its seed loop, the seed list in another    *)
(* order: the per-seed searches taken in the order of a permutation.       *)
(***************************************************************************)
ReorderSeeds ==
  /\ pc = "done"
  /\ entry = "bowtie2_align"
  /\ in_order_result' = alignments
  /\ entry' = "bowtie2_align_reordered"
  /\ \E order \in Permutations(1..Len(seeds)) :
       seeds' = [k \in 1..Len(seeds) |-> seeds[order[k]]]
  /\ next_seed' = 0
  /\ candidate_positions' = <<>>
  /\ pc' = "seeding"
  /\ UNCHANGED <<aligner_args, sw_args, index, hisat_locals, next_candidate, alignments, sw_locals, cigar_vars, run_vars, offset>>

(***************************************************************************)
(* run_alignment_test: the loop over the reads, each iteration calling     *)
(* align_func once or twice.  Time and memory are measured around the loop *)
(* and do not enter it; the list is the first component of what is         *)
(* returned.                                                               *)
(***************************************************************************)
\* alns = align_func(seq, reference, **align_kwargs)
RunAlign ==
  /\ pc = "run_loop"
  /\ run_index < Len(reads)
  /\ read' = reads[run_index + 1].sequence
  /\ run_call' = "first"
  /\ pc' = "start"
  /\ UNCHANGED <<entry, reference, max_mismatches, seed_len, seed_interval, sw_args, index, hisat_locals, bowtie_locals, alignments, sw_locals, cigar_vars, in_order_result, run_args, run_index, run_alignments, aligned_count, offset>>

\* the aligner the call runs
RunHisat == align_func = "hisat_align" /\ HisatExact

RunBowtie == align_func = "bowtie2_align" /\ BowtieSeeds

\* alns = align_func(rc_seq, reference, **align_kwargs)
RunRetry ==
  /\ pc = "done"
  /\ run_call = "first"
  /\ RetriesReverse(alignments, try_reverse)
  /\ read' = reverse_complement(reads[run_index + 1].sequence)
  /\ run_call' = "retry"
  /\ pc' = "start"
  /\ UNCHANGED <<entry, reference, max_mismatches, seed_len, seed_interval, sw_args, index, hisat_locals, bowtie_locals, alignments, sw_locals, cigar_vars, in_order_result, run_args, run_index, run_alignments, aligned_count, offset>>

\* the rest of the iteration
RunAppend ==
  /\ pc = "done"
  /\ \/ run_call = "first" /\ ~RetriesReverse(alignments, try_reverse)
     \/ run_call = "retry"
  /\ run_alignments' = Append(run_alignments, RunEntry(reads[run_index + 1], alignments))
  /\ aligned_count' = IF HasAlignment(alignments) THEN aligned_count + 1 ELSE aligned_count
  /\ run_index' = run_index + 1
  /\ run_call' = "none"
  /\ pc' = "run_loop"
  /\ UNCHANGED <<entry, aligner_args, sw_args, index, hisat_locals, bowtie_locals, alignments, sw_locals, cigar_vars, in_order_result, run_args, offset>>

RunReturn ==
  /\ pc = "run_loop"
  /\ run_index >= Len(reads)
  /\ pc' = "run_done"
  /\ UNCHANGED <<entry, aligner_args, sw_args, index, hisat_locals, bowtie_locals, alignments, sw_locals, cigar_vars, in_order_result, run_vars, offset>>

NextHisat ==
  \/ BuildIndex
  \/ OccFill
  \/ OccReturn
  \/ HisatExact
  \/ HisatTolerant
  \/ HisatSpliced
  \/ HisatReturn
  \/ CallSeedAndExtend
  \/ CallSplicedAlignment

NextSW ==
  \/ SWStart
  \/ SWFillCell
  \/ SWTraceStart
  \/ SWTraceStep
  \/ SWReturn

NextBowtie ==
  \/ BuildIndex
  \/ OccFill
  \/ OccReturn
  \/ BowtieSeeds
  \/ BowtieSeedHits
  \/ BowtieCandidates
  \/ BowtieExtend
  \/ BowtieRecord
  \/ BowtieSort
  \/ BowtieMapq
  \/ NextSW

NextReorder ==
  \/ NextBowtie
  \/ ReorderSeeds

NextAlign ==
  \/ BuildIndex
  \/ OccFill
  \/ OccReturn
  \/ HisatExact
  \/ HisatTolerant
  \/ HisatSpliced
  \/ HisatReturn
  \/ NextBowtie

NextAll ==
  \/ NextHisat
  \/ NextBowtie

NextRun ==
  \/ RunAlign
  \/ BuildIndex
  \/ OccFill
  \/ OccReturn
  \/ RunHisat
  \/ HisatTolerant
  \/ HisatSpliced
  \/ HisatReturn
  \/ RunBowtie
  \/ BowtieSeedHits
  \/ BowtieCandidates
  \/ BowtieExtend
  \/ BowtieRecord
  \/ BowtieSort
  \/ BowtieMapq
  \/ NextSW
  \/ RunRetry
  \/ RunAppend
  \/ RunReturn

\* both aligners, extract_seeds taken iteration by iteration
NextLoops ==
  \/ BuildIndex
  \/ OccFill
  \/ OccReturn
  \/ HisatExact
  \/ HisatTolerant
  \/ HisatSpliced
  \/ HisatReturn
  \/ ExtractSeedsStart
  \/ ExtractSeed
  \/ ExtractSeedsReturn
  \/ BowtieSeedHits
  \/ BowtieCandidates
  \/ BowtieExtend
  \/ BowtieRecord
  \/ BowtieSort
  \/ BowtieMapq
  \/ NextSW

\* the index and the exact search, on every small reference and pattern
SpecIndex == InitIndex /\ [][NextHisat]_vars

\* the tiers of hisat_align on reads long enough to be seeded and split
SpecHisat == InitHisat /\ [][NextHisat]_vars

\* bowtie2_align
SpecBowtie == InitBowtie /\ [][NextBowtie]_vars

\* both aligners on the same inputs
SpecAlign == InitAlign /\ [][NextAlign]_vars

\* both aligners and the engines of hisat_alignment.py on the small
\* inputs, each call running on until it returns: the program is
\* sequential, so a step that can be taken is taken
SpecAllSmallLive == InitAlignSmall /\ [][NextAll]_vars /\ WF_vars(NextAll)

\* smith_waterman on every pair of short strings
SpecSW == InitSW /\ [][NextSW]_vars

\* bowtie2_align, and the same call with its seed list reordered
SpecReorder == InitReorder /\ [][NextReorder]_vars

\* compress_cigar on short operation lists and on lists of long runs
SpecCigar == InitCigar /\ [][CallCompressCigar]_vars

\* smith_waterman on the pairs of strings whose alignments are enumerated
SpecSWShort == InitSWShort /\ [][NextSW]_vars

\* both aligners with every loop taken step by step, each step that can be
\* taken being taken: the program is sequential
SpecLoopsLive == InitLoops /\ [][NextLoops]_vars /\ WF_vars(NextLoops)

\* run_alignment_test on short read lists
SpecRun == InitRun /\ [][NextRun]_vars

\* the same, each step that can be taken being taken: the program is
\* sequential
SpecRunLive == InitRun /\ [][NextRun]_vars /\ WF_vars(NextRun)

(***************************************************************************)
(* Claims.                                                                 *)
(***************************************************************************)
\* the oracle: the start offsets at which p occurs in r, by substring scan
BruteForcePositions(p, r) ==
  {i \in 0..(Len(r) - Len(p)) : \A k \in 1..Len(p) : r[i + k] = p[k]}

\* the elements of a list
Elems(xs) == {xs[k] : k \in 1..Len(xs)}

NoRepeats(xs) == \A i, j \in 1..Len(xs) : i # j => xs[i] # xs[j]

IndexBuilt == pc \notin {"start", "occ_fill"}

\* C1: for a non-empty pattern over the alphabet, locating it through the
\* FM-index of reference + "$" (the exact tier's locate_pattern; the same
\* search called again on the index held in the state) returns exactly the
\* start positions a brute-force substring scan of the reference finds, each
\* once, and the empty list when the pattern does not occur.
C1_LocateMatchesBruteForce ==
  (IndexBuilt /\ read # <<>>) =>
    LET found == locate_pattern(read, suffix_array, count_table, occurrence)
        oracle == BruteForcePositions(read, reference)
    IN /\ Elems(found) = oracle
       /\ NoRepeats(found)
       /\ (oracle = {} => found = <<>>)
       /\ (entry = "hisat_align" => exact_positions = found)

C1_Witness ==
  /\ entry = "hisat_align"
  /\ Len(read) >= 2
  /\ Len(exact_positions) >= 2
  /\ Elems(exact_positions) = BruteForcePositions(read, reference)

\* lexicographic order of two strings by code point, stated without
\* recursion: s <= t when s is a prefix of t, or the strings first differ
\* at an offset where s holds the smaller symbol
LexLeq(s, t) ==
  \/ /\ Len(s) <= Len(t)
     /\ \A k \in 1..Len(s) : s[k] = t[k]
  \/ \E k \in 1..Min(Len(s), Len(t)) :
       /\ \A j \in 1..(k - 1) : s[j] = t[j]
       /\ Ord(s[k]) < Ord(t[k])

\* C2: the suffix array of reference + "$" is a permutation of the offsets
\* 0..|reference|, and the suffixes at adjacent slots are in lexicographic
\* order.
C2_SuffixArraySorted ==
  IndexBuilt =>
    LET text == reference \o <<"$">>
    IN /\ Len(suffix_array) = Len(reference) + 1
       /\ Elems(suffix_array) = 0..Len(reference)
       /\ \A i \in 1..(Len(suffix_array) - 1) :
            LexLeq(SliceFrom(text, suffix_array[i]),
                   SliceFrom(text, suffix_array[i + 1]))

C2_Witness ==
  /\ pc = "indexed"
  /\ Len(reference) = 3
  /\ suffix_array = <<3, 2, 0, 1>>

\* the number of offsets at which the read differs from the reference
\* window that starts at offset p
Differences(q, r, p) == Cardinality({k \in 1..Len(q) : q[k] # r[p + k]})

SeedAndExtendReturned == entry = "seed_and_extend" /\ pc = "done"

\* every window of the reference within K substitutions of the read is
\* reported, at its offset and with its number of mismatches
EveryCloseWindowReported ==
  \A p \in 0..(Len(reference) - Len(read)) :
    Differences(read, reference, p) <= max_mismatches =>
      \E k \in 1..Len(alignments) :
        /\ alignments[k].position = p
        /\ alignments[k].mismatches = Differences(read, reference, p)

\* C3 as stated: for a read that equals reference[p : p + |read|] except at
\* exactly m <= K substituted offsets, seed_and_extend with K returns a
\* record at position p whose mismatches field is m.
C3_Original == SeedAndExtendReturned => EveryCloseWindowReported

\* C3, amended: the same, for reads with |read| div (K + 1) >= 8, the
\* reads that hold at least K + 1 whole seeds.
C3_TolerantFindsWindow ==
  (SeedAndExtendReturned /\ Len(read) \div (max_mismatches + 1) >= 8)
    => EveryCloseWindowReported

C3_Witness ==
  /\ SeedAndExtendReturned
  /\ max_mismatches = 2
  /\ Len(read) = 24
  /\ \E k \in 1..Len(alignments) :
       /\ alignments[k].mismatches = 2
       /\ Differences(read, reference, alignments[k].position) = 2

ReadExample == <<"A", "C", "G", "T", "T", "T", "C">>

ExampleCall ==
  reference = RefExample /\ read = ReadExample /\ max_mismatches = 0

\* C4 as stated: for reference ACGTACGTTTCGATCGA and read ACGTTTC the exact
\* search returns [4], and seed_and_extend with K = 0 returns a record at
\* position 4 with mismatches 0 and score 7.
C4_Original ==
  ExampleCall =>
    /\ entry = "hisat_align" => exact_positions = <<4>>
    /\ SeedAndExtendReturned =>
         \E k \in 1..Len(alignments) :
           /\ alignments[k].position = 4
           /\ alignments[k].mismatches = 0
           /\ alignments[k].score = 7

\* C4, amended: for that reference and read the exact search returns [4]
\* and hisat_align with K = 0 returns the one record at position 4 with
\* mismatches 0 and score 7, made by its exact tier; seed_and_extend with
\* K = 0 returns no record, the 7-symbol read being shorter than a seed.
C4_ExampleEndToEnd ==
  ExampleCall =>
    /\ entry = "hisat_align" => exact_positions = <<4>>
    /\ (entry = "hisat_align" /\ pc = "done") =>
         /\ alignments = <<[position |-> 4, cigar |-> <<"7", "M">>,
                            mismatches |-> 0, score |-> 7,
                            spliced |-> FALSE]>>
         /\ tiers = <<[tier |-> "EXACT", n |-> 1]>>
    /\ SeedAndExtendReturned => alignments = <<>>

C4_Witness ==
  /\ ExampleCall
  /\ SeedAndExtendReturned
  /\ alignments = <<>>
  /\ BruteForcePositions(read, reference) = {4}

\* C5: when the read is left + right, left occurs at offset a and right at
\* offset b of the reference, both halves have at least 8 symbols, the gap
\* b - (a + |left|) lies in [50, 500000], and the reference holds GT right
\* after the left half and AG right before the right half, then
\* spliced_alignment returns a spliced record with intron_start = a + |left|
\* and intron_end = b.
C5_SpliceJunctionReported ==
  (entry = "spliced_alignment" /\ pc = "done") =>
    \A ll \in 8..(Len(read) - 8) :
      \A a \in BruteForcePositions(SubSeq(read, 1, ll), reference) :
        \A b \in BruteForcePositions(SubSeq(read, ll + 1, Len(read)), reference) :
          ( /\ b - (a + ll) >= 50
            /\ b - (a + ll) <= 500000
            /\ reference[a + ll + 1] = "G" /\ reference[a + ll + 2] = "T"
            /\ reference[b - 1] = "A" /\ reference[b] = "G" )
          => \E k \in 1..Len(alignments) :
               /\ alignments[k].spliced
               /\ alignments[k].intron_start = a + ll
               /\ alignments[k].intron_end = b

\* bowtie2_align has returned: alignments is the list it returns
BowtieReturned == pc = "done" /\ entry = "bowtie2_align"

\* C6: in the list bowtie2_align returns, the record at rank 0 has a MAPQ
\* greater than or equal to the MAPQ of every other record of the list.
C6_TopMapqHighest ==
  BowtieReturned =>
    \A k \in 1..Len(alignments) : alignments[1].mapq >= alignments[k].mapq

\* C7: in the list bowtie2_align returns, the record at rank 0 has MAPQ
\* min(60, score), every record at 0-based rank r > 0 has MAPQ
\* max(0, 60 - 10 r), and so every MAPQ lies in 0..60.
C7_MapqByRank ==
  BowtieReturned =>
    \A k \in 1..Len(alignments) :
      /\ k = 1 => alignments[k].mapq =
                    (IF alignments[k].score < 60 THEN alignments[k].score ELSE 60)
      /\ k > 1 => alignments[k].mapq =
                    (IF 10 * (k - 1) > 60 THEN 0 ELSE 60 - 10 * (k - 1))
      /\ alignments[k].mapq \in 0..60

\* a list whose top score is above the cap, with a record behind it
C7_Witness ==
  /\ BowtieReturned
  /\ Len(alignments) >= 2
  /\ alignments[1].score > 60
  /\ alignments[1].mapq = 60
  /\ alignments[2].mapq = 50


TierOrder == <<"EXACT", "TOLERANT", "SPLICED">>

\* what a tier makes of the call's arguments
TierOutput(tier) ==
  CASE tier = "EXACT" -> ExactRecords(read, exact_positions)
    [] tier = "TOLERANT" ->
         seed_and_extend(read, reference, suffix_array, count_table,
                         occurrence, max_mismatches)
    [] tier = "SPLICED" ->
         spliced_alignment(read, reference, suffix_array, count_table,
                           occurrence)

\* C8: hisat_align enters the tiers EXACT, TOLERANT, SPLICED in that order,
\* enters a tier only when every earlier tier produced no record, returns
\* only after a tier produced records or all three were tried, and the list
\* it holds is made of the records of the last tier entered and no others.
C8_TiersInOrder ==
  entry = "hisat_align" =>
    /\ Len(tiers) \in 1..3
    /\ \A i \in 1..Len(tiers) : tiers[i].tier = TierOrder[i]
    /\ \A i \in 1..(Len(tiers) - 1) : tiers[i].n = 0
    /\ pc \in {"tolerant_done", "spliced_done", "done"} =>
         (Len(tiers) = 1 => tiers[1].n > 0)
    /\ pc \in {"spliced_done", "done"} =>
         (Len(tiers) = 2 => tiers[2].n > 0)
    /\ Len(alignments) = tiers[Len(tiers)].n
    /\ Elems(alignments) = Elems(TierOutput(tiers[Len(tiers)].tier))

C8_Witness ==
  /\ entry = "hisat_align"
  /\ pc = "done"
  /\ Len(tiers) = 3
  /\ tiers[3].n > 0
  /\ \A k \in 1..Len(alignments) : alignments[k].spliced

\* an aligner has returned: alignments is the list it returns
AlignerReturned ==
  pc = "done" /\ entry \in {"hisat_align", "bowtie2_align"}

\* C9: the list hisat_align returns and the list bowtie2_align returns are
\* each ordered by non-increasing score: of any two adjacent records the
\* earlier has a score greater than or equal to the later's.
C9_ScoresNonIncreasing ==
  AlignerReturned =>
    \A k \in 1..(Len(alignments) - 1) :
      alignments[k].score >= alignments[k + 1].score

\* hisat_align returns records of different scores
C9_Witness ==
  /\ pc = "done"
  /\ entry = "hisat_align"
  /\ \E k \in 1..(Len(alignments) - 1) :
       alignments[k].score > alignments[k + 1].score

\* smith_waterman, called on its own, has returned
SWReturned == pc = "done" /\ entry = "smith_waterman"

\* C10: with a positive match score and negative mismatch and gap
\* penalties, the score smith_waterman returns is at least 0 and at most
\* match_score times the length of the shorter of query and target, the
\* empty strings included.
C10_ScoreBounded ==
  SWReturned =>
    /\ sw_result.score >= 0
    /\ sw_result.score <= scoring.match_score * Min(Len(query), Len(target))

\* the bound is reached on strings of different lengths
C10_Witness ==
  /\ SWReturned
  /\ Len(query) # Len(target)
  /\ sw_result.score > 0
  /\ sw_result.score = scoring.match_score * Min(Len(query), Len(target))

\* the r-th smallest element of a set of integers, r from 1
NthOf(S, r) == CHOOSE x \in S : Cardinality({y \in S : y < x}) = r - 1

\* the subsets of S of k elements
KSubsets(S, k) == {X \in SUBSET S : Cardinality(X) = k}

\* the greatest element of a non-empty set of integers
SetMax(S) == CHOOSE m \in S : \A x \in S : x <= m

\* the score of one alignment of a query substring of lq symbols with a
\* target substring of lt symbols: the query offsets A and the target offsets
\* B share a column, in order, and every other symbol of the two substrings
\* has a column of its own against a gap
AlignmentScore(q, t, sc, lq, lt, A, B) ==
  LET k == Cardinality(A)
      equal == {r \in 1..k : q[NthOf(A, r)] = t[NthOf(B, r)]}
  IN Cardinality(equal) * sc.match_score
       + (k - Cardinality(equal)) * sc.mismatch_penalty
       + ((lq - k) + (lt - k)) * sc.gap_extend

\* the scores of all alignments of q[a:b] with t[c:d]
AlignmentScores(q, t, sc, a, b, c, d) ==
  UNION {{AlignmentScore(q, t, sc, b - a, d - c, A, B) :
            A \in KSubsets((a + 1)..b, k), B \in KSubsets((c + 1)..d, k)} :
         k \in 0..Min(b - a, d - c)}

\* the best local alignment score: the maximum over every pair of a
\* substring of q and a substring of t and every alignment between them,
\* or 0 when none scores positively
BestLocalScore(q, t, sc) ==
  SetMax({0} \cup UNION {AlignmentScores(q, t, sc, a, b, c, d) :
                           a \in 0..Len(q), b \in 0..Len(q),
                           c \in 0..Len(t), d \in 0..Len(t)})

\* C11: the score smith_waterman returns is the best local alignment score
\* under linear gap cost: the maximum, over every substring of the query,
\* every substring of the target and every alignment between the two, of
\* match score per equal column, mismatch penalty per unequal column and
\* gap penalty per inserted or deleted symbol; 0 when no alignment scores
\* positively.
C11_ScoreIsBestLocal ==
  SWReturned => sw_result.score = BestLocalScore(query, target, scoring)

\* the best alignment holds a gap between two matches
C11_Witness ==
  /\ SWReturned
  /\ query = <<"A", "A">>
  /\ target = <<"A", "C", "A">>
  /\ scoring = DefaultScoring
  /\ sw_result.score = 3
  /\ BestLocalScore(query, target, scoring) = 3

\* the value of a decimal digit
DigitValue(ch) ==
  CASE ch = "0" -> 0 [] ch = "1" -> 1 [] ch = "2" -> 2 [] ch = "3" -> 3
    [] ch = "4" -> 4 [] ch = "5" -> 5 [] ch = "6" -> 6 [] ch = "7" -> 7
    [] ch = "8" -> 8 [] ch = "9" -> 9

IsDigit(ch) == ch \in {"0", "1", "2", "3", "4", "5", "6", "7", "8", "9"}

\* the number a string of decimal digits writes
RECURSIVE DecimalValue(_)
DecimalValue(ds) ==
  IF ds = <<>> THEN 0
  ELSE 10 * DecimalValue(SubSeq(ds, 1, Len(ds) - 1)) + DigitValue(ds[Len(ds)])

\* the offsets of the codes in a CIGAR string, from 1
CodeOffsets(s) == {i \in 1..Len(s) : ~IsDigit(s[i])}

\* the run the r-th code of a CIGAR string stands for: as many copies of the
\* code as the digits between the previous code and this one say
RunOf(s, r) ==
  LET at == NthOf(CodeOffsets(s), r)
      from == IF r = 1 THEN 1 ELSE NthOf(CodeOffsets(s), r - 1) + 1
  IN Rep(s[at], DecimalValue(SubSeq(s, from, at - 1)))

\* the expansion of a CIGAR string: each '<count><code>' run into count
\* copies of code
ExpandCigar(s) ==
  Concat([r \in 1..Cardinality(CodeOffsets(s)) |-> RunOf(s, r)])

CompressReturned == pc = "done" /\ entry = "compress_cigar"

\* C12: for every operation list over {M, I, D, N}, expanding the string
\* compress_cigar returns gives back the list; compressing that expansion
\* again gives the same string; and the empty list compresses to the empty
\* string.
C12_CigarRoundTrip ==
  CompressReturned =>
    /\ ExpandCigar(cigar) = ops
    /\ compress_cigar(ExpandCigar(cigar)) = cigar
    /\ (ops = <<>> => cigar = <<>>)

\* adjacent runs of one code merge into a count of two digits
C12_Witness ==
  /\ CompressReturned
  /\ Len(ops) = 20
  /\ cigar = <<"1", "9", "I", "1", "N">>
  /\ ExpandCigar(cigar) = ops

\* the read holds a symbol that does not occur in reference + "$"
AbsentSymbolInRead ==
  \E k \in 1..Len(read) : read[k] \notin Chars(ref_with_term(reference))

\* the function called has returned
Returned == pc = "done"

\* the searches of the index for the read find nothing
SearchesFindNothing ==
  /\ FM_backward_search(read, count_table, occurrence, Len(suffix_array)) = <<-1, -1>>
  /\ locate_pattern(read, suffix_array, count_table, occurrence) = <<>>
  /\ find_pattern(read, suffix_array, count_table, occurrence) = <<>>

\* C13: for a read holding a symbol absent from the indexed terminated
\* reference, FM_backward_search returns the no-match range (-1, -1) and
\* locate_pattern and find_pattern return the empty list; and hisat_align
\* and bowtie2_align called on such a read run on to their return, where
\* they hand back a list.
C13_AbsentSymbolNoMatch ==
  /\ [](IndexBuilt /\ AbsentSymbolInRead => SearchesFindNothing)
  /\ (AbsentSymbolInRead ~> Returned)
  /\ [](AlignerReturned /\ AbsentSymbolInRead => DOMAIN alignments = 1..Len(alignments))

\* bowtie2_align returns a record for a read with an absent symbol: the
\* seed without it hits, and the extension aligns the rest of the read
C13_Witness ==
  /\ AlignerReturned
  /\ entry = "bowtie2_align"
  /\ AbsentSymbolInRead
  /\ Len(alignments) > 0
  /\ SearchesFindNothing

\* s is the decimal numeral of n followed by the code
IsCountAndCode(s, n, code) ==
  /\ Len(s) >= 2
  /\ s[Len(s)] = code
  /\ \A i \in 1..(Len(s) - 1) : IsDigit(s[i])
  /\ (Len(s) > 2 => s[1] # "0")
  /\ DecimalValue(SubSeq(s, 1, Len(s) - 1)) = n

\* C14: every record seed_and_extend returns has a position p with
\* 0 <= p <= |reference| - |read|, a mismatches field equal to the number of
\* offsets at which the read differs from reference[p : p + |read|] and at
\* most K, the cigar '<|read|>M', score |read| - mismatches and spliced
\* false; and no two records of the list have the same position.
C14_TolerantRecordsSound ==
  SeedAndExtendReturned =>
    /\ \A k \in 1..Len(alignments) :
         /\ alignments[k].position >= 0
         /\ alignments[k].position <= Len(reference) - Len(read)
         /\ alignments[k].mismatches = Differences(read, reference, alignments[k].position)
         /\ alignments[k].mismatches <= max_mismatches
         /\ IsCountAndCode(alignments[k].cigar, Len(read), "M")
         /\ alignments[k].score = Len(read) - alignments[k].mismatches
         /\ alignments[k].spliced = FALSE
    /\ \A i, j \in 1..Len(alignments) :
         i # j => alignments[i].position # alignments[j].position

\* two windows reported, one of them with mismatches, one at offset 0
C14_Witness ==
  /\ SeedAndExtendReturned
  /\ Len(alignments) >= 2
  /\ \E k \in 1..Len(alignments) : alignments[k].mismatches >= 1
  /\ \E k \in 1..Len(alignments) : alignments[k].position = 0

SplicedAlignmentReturned == entry = "spliced_alignment" /\ pc = "done"

\* s is '<l>M<gap>N<r>M'
IsSplicedCigar(s, l, gap, r) ==
  \E i, j \in 1..Len(s) :
    /\ i < j
    /\ IsCountAndCode(SubSeq(s, 1, i), l, "M")
    /\ IsCountAndCode(SubSeq(s, i + 1, j), gap, "N")
    /\ IsCountAndCode(SubSeq(s, j + 1, Len(s)), r, "M")

\* the record rec splits the read into its first l symbols and the rest,
\* and is sound for that split
SplicedRecordSound(rec, l) ==
  LET r == Len(read) - l
      gap == rec.intron_end - rec.intron_start
  IN /\ l >= 8
     /\ r >= 8
     /\ rec.position >= 0
     /\ rec.intron_end + r <= Len(reference)
     /\ \A k \in 1..l : reference[rec.position + k] = read[k]
     /\ \A k \in 1..r : reference[rec.intron_end + k] = read[l + k]
     /\ rec.intron_start = rec.position + l
     /\ gap >= 50
     /\ gap <= 500000
     /\ reference[rec.intron_start + 1] = "G"
     /\ reference[rec.intron_start + 2] = "T"
     /\ reference[rec.intron_end - 1] = "A"
     /\ reference[rec.intron_end] = "G"
     /\ IsSplicedCigar(rec.cigar, l, gap, r)
     /\ rec.score = Len(read)
     /\ rec.spliced = TRUE

\* C15: every record spliced_alignment returns is sound: with l its left
\* length and r = |read| - l, both at least 8, the reference holds the
\* read's first l symbols at position and its last r symbols at intron_end,
\* intron_start = position + l, the gap intron_end - intron_start lies in
\* [50, 500000], the reference holds GT at intron_start and AG right before
\* intron_end, the cigar is '<l>M<gap>N<r>M', score = |read| and spliced is
\* true.
C15_SplicedRecordsSound ==
  SplicedAlignmentReturned =>
    \A k \in 1..Len(alignments) :
      SplicedRecordSound(alignments[k], alignments[k].intron_start - alignments[k].position)

\* a junction reported for a left anchor that does not start the reference,
\* over an intron of the minimum length
C15_Witness ==
  /\ SplicedAlignmentReturned
  /\ Len(alignments) >= 1
  /\ alignments[1].position = 2
  /\ alignments[1].intron_end - alignments[1].intron_start = 50
  /\ SplicedRecordSound(alignments[1], alignments[1].intron_start - alignments[1].position)

\* the call on the reordered seed list has returned
ReorderedReturned == pc = "done" /\ entry = "bowtie2_align_reordered"

\* C16: the list bowtie2_align returns (positions, CIGARs, scores, MAPQ
\* values, and their order) is the same whatever order the per-seed
\* searches are taken in: run on any permutation of its seed list, the call
\* returns the list it returns on the seed list in order.
C16_SeedOrderIrrelevant ==
  ReorderedReturned => alignments = in_order_result

\* the offsets 0, S, 2S, ... at which a seed of seed_len symbols fits in
\* the read
SeedOffsets ==
  {o \in 0..Len(read) : o % seed_interval = 0 /\ o + seed_len <= Len(read)}

\* bowtie2_align holds the list extract_seeds returned
SeedsExtracted == entry = "bowtie2_align"

\* C17: extract_seeds(read, L, S) with L > 0 and S > 0 returns the pairs
\* (read[o : o + L], o) for o = 0, S, 2S, ... in increasing order of o, one
\* for every such o with o + L <= |read| and no others; it returns the
\* empty list when L > |read|.
C17_SeedsAtEveryStride ==
  SeedsExtracted =>
    /\ Len(seeds) = Cardinality(SeedOffsets)
    /\ \A k \in 1..Len(seeds) :
         /\ seeds[k].offset = (k - 1) * seed_interval
         /\ seeds[k].offset \in SeedOffsets
         /\ Len(seeds[k].seed) = seed_len
         /\ \A i \in 1..seed_len : seeds[k].seed[i] = read[seeds[k].offset + i]
    /\ (seed_len > Len(read) => seeds = <<>>)

\* seeds that overlap, with symbols left over after the last of them
C17_Witness ==
  /\ SeedsExtracted
  /\ Len(read) = 8
  /\ seed_len = 3
  /\ seed_interval = 2
  /\ Len(seeds) = 3
  /\ seeds[3].offset = 4

\* the seed length is above the read length: bowtie2_align's seed_len, and
\* the max(8, |read| div (K + 1)) of seed_and_extend
BowtieSeedTooLong == seed_len > Len(read)
TolerantSeedTooLong ==
  (IF Len(read) \div (max_mismatches + 1) > 8
   THEN Len(read) \div (max_mismatches + 1) ELSE 8) > Len(read)

\* C18: bowtie2_align called with seed_len > |read| produces no seed and
\* returns the empty list; seed_and_extend called with
\* max(8, |read| div (K + 1)) > |read| returns the empty list; hisat_align
\* called on a read of fewer than 8 symbols that does not occur in the
\* reference returns the empty list; and each of these calls runs on to its
\* return.
C18_SeedLongerThanRead ==
  /\ [](BowtieSeedTooLong /\ entry = "bowtie2_align" => seeds = <<>>)
  /\ [](BowtieSeedTooLong /\ BowtieReturned => alignments = <<>>)
  /\ [](TolerantSeedTooLong /\ SeedAndExtendReturned => alignments = <<>>)
  /\ []((Len(read) < 8 /\ BruteForcePositions(read, reference) = {}
          /\ entry = "hisat_align" /\ Returned) => alignments = <<>>)
  /\ ((BowtieSeedTooLong \/ TolerantSeedTooLong) ~> Returned)

\* bowtie2_align returns nothing for a read that occurs in the reference
C18_Witness ==
  /\ BowtieReturned
  /\ BowtieSeedTooLong
  /\ Len(read) > 0
  /\ BruteForcePositions(read, reference) # {}
  /\ alignments = <<>>

\* the number of occurrences of c among the first i symbols of a string
CountIn(str, c, i) == Cardinality({j \in 1..i : str[j] = c})

\* C19: in the table build_occurrence_table returns for the transformed
\* string of n symbols, every symbol c of the string has a list of n + 1
\* entries, entry i (0 <= i <= n) is the number of occurrences of c in the
\* first i symbols of the string, and entry n is the total count of c.
C19_OccurrenceCountsPrefix ==
  IndexBuilt =>
    /\ DOMAIN occurrence = Chars(bwt)
    /\ \A c \in Chars(bwt) :
         /\ Len(occurrence[c]) = Len(bwt) + 1
         /\ \A i \in 0..Len(bwt) : occurrence[c][i + 1] = CountIn(bwt, c, i)
         /\ occurrence[c][Len(bwt) + 1] = CountIn(bwt, c, Len(bwt))

\* a symbol that occurs twice in the transformed string, apart
C19_Witness ==
  /\ pc = "indexed"
  /\ Len(bwt) = 4
  /\ \E c \in Chars(bwt) :
       /\ occurrence[c] = <<0, 1, 1, 1, 2>>
       /\ CountIn(bwt, c, 4) = 2

\* the tables of the index have been computed from the reference
TablesBuilt == pc # "start"

\* the number of symbols of a string strictly smaller than c
SmallerIn(str, c) == Cardinality({j \in 1..Len(str) : Ord(str[j]) < Ord(c)})

\* slot k of the suffix array lies in the interval the count table gives the
\* symbol c of the terminated reference text: [C[c], C[c] + count(c))
InSlotsOf(text, c, k) ==
  count_table[c] <= k /\ k < count_table[c] + CountIn(text, c, Len(text))

\* C20: build_count_table gives every distinct symbol c of the terminated
\* reference the number of its symbols strictly smaller than c; so the
\* intervals [C[c], C[c] + count(c)) of the distinct symbols are pairwise
\* disjoint, follow one another in the order of the symbols from 0 to n,
\* and every slot of the suffix array in the interval of c holds a suffix
\* that begins with c.
C20_CountTablePartitions ==
  TablesBuilt =>
    LET text == ref_with_term(reference)
        n == Len(text)
    IN /\ DOMAIN count_table = Chars(text)
       /\ \A c \in Chars(text) : count_table[c] = SmallerIn(text, c)
       /\ \A k \in 0..(n - 1) :
            Cardinality({c \in Chars(text) : InSlotsOf(text, c, k)}) = 1
       /\ \E c \in Chars(text) : count_table[c] = 0
       /\ \A c \in Chars(text) :
            \/ count_table[c] + CountIn(text, c, n) = n
            \/ \E d \in Chars(text) :
                 /\ Ord(c) < Ord(d)
                 /\ \A e \in Chars(text) : ~(Ord(c) < Ord(e) /\ Ord(e) < Ord(d))
                 /\ count_table[d] = count_table[c] + CountIn(text, c, n)
       /\ \A c \in Chars(text) : \A k \in 0..(n - 1) :
            InSlotsOf(text, c, k) => text[suffix_array[k + 1] + 1] = c

\* three distinct symbols, one of them twice
C20_Witness ==
  /\ pc = "indexed"
  /\ reference = <<"C", "A", "A">>
  /\ DOMAIN count_table = {"$", "A", "C"}
  /\ count_table["$"] = 0
  /\ count_table["A"] = 1
  /\ count_table["C"] = 3

\* the index built from the empty reference is the index of "$" alone
TrivialIndex ==
  /\ suffix_array = <<0>>
  /\ bwt = <<"$">>
  /\ DOMAIN count_table = {"$"}
  /\ count_table["$"] = 0
  /\ DOMAIN occurrence = {"$"}
  /\ occurrence["$"] = <<0, 1>>

\* no search of the index finds the pattern p
FindsNothing(p) ==
  /\ FM_backward_search(p, count_table, occurrence, Len(suffix_array)) = <<-1, -1>>
  /\ locate_pattern(p, suffix_array, count_table, occurrence) = <<>>
  /\ find_pattern(p, suffix_array, count_table, occurrence) = <<>>

\* what holds of the index of the empty reference and of the searches of it
EmptyReferenceIndex ==
  (reference = <<>> /\ IndexBuilt) =>
    /\ TrivialIndex
    /\ \A p \in Strs(Sigma, 1, MaxReadLen) : FindsNothing(p)

\* C21 as first stated: on the empty reference the index is the trivial
\* one, no non-empty pattern is found in it, and hisat_align and
\* bowtie2_align return the empty list, whatever the read.
C21_Original ==
  /\ EmptyReferenceIndex
  /\ (reference = <<>> /\ AlignerReturned) => alignments = <<>>

\* C21: building the index from the empty reference yields suffix_array
\* [0], the transformed string "$", the count table {"$": 0} and the
\* occurrence list [0, 1] for "$"; no search of it finds a non-empty pattern
\* over the alphabet; bowtie2_align returns the empty list on the empty
\* reference, and so does hisat_align when the read is not empty.
C21_EmptyReference ==
  /\ EmptyReferenceIndex
  /\ (reference = <<>> /\ AlignerReturned /\ (entry = "hisat_align" => read # <<>>)) =>
       alignments = <<>>

\* hisat_align has gone through its three tiers on the empty reference
C21_Witness ==
  /\ reference = <<>>
  /\ pc = "done"
  /\ entry = "hisat_align"
  /\ Len(read) = 2
  /\ TrivialIndex
  /\ Len(tiers) = 3
  /\ alignments = <<>>

\* run_alignment_test has returned
RunReturned == pc = "run_done"

\* one entry for every read, in the order of the reads
OneEntryPerRead ==
  /\ Len(run_alignments) = Len(reads)
  /\ \A i \in 1..Len(reads) :
       /\ run_alignments[i].read_id = reads[i].id
       /\ run_alignments[i].sequence = reads[i].sequence

\* the step appends an entry to the list
EntryAppended == run_alignments' # run_alignments

\* the entry appended is for the read of the iteration, after the entries of
\* the reads before it, and is marked unmapped exactly when the call of
\* align_func that has just returned gave no record; a first call that gave
\* none is the last one only when try_reverse is not set
EntryFollowsCalls ==
  /\ pc = "done"
  /\ Len(run_alignments) = run_index
  /\ Len(run_alignments') = run_index + 1
  /\ SubSeq(run_alignments', 1, run_index) = run_alignments
  /\ run_alignments'[run_index + 1].read_id = reads[run_index + 1].id
  /\ run_alignments'[run_index + 1].unmapped = (Len(alignments) = 0)
  /\ (run_call = "first" /\ try_reverse) => Len(alignments) > 0
  /\ run_call \in {"first", "retry"}

\* align_func is called on the read of the iteration, and called again,
\* on its reverse complement, only after a first call that gave no record
\* and only when try_reverse is set
CallsInOrder ==
  /\ (run_call' = "first" /\ run_call # "first") =>
       /\ run_call = "none"
       /\ run_index < Len(reads)
       /\ read' = reads[run_index + 1].sequence
  /\ (run_call' = "retry" /\ run_call # "retry") =>
       /\ run_call = "first"
       /\ pc = "done"
       /\ Len(alignments) = 0
       /\ try_reverse
       /\ read' = reverse_complement(reads[run_index + 1].sequence)

\* C22: run_alignment_test takes the reads in order and appends exactly one
\* entry per read, in the order of the reads; the entry of a read is marked
\* unmapped exactly when align_func returned no record for it, and, when
\* try_reverse is set, none for its reverse complement either; and the run
\* goes on to its return whatever reads failed to align.
C22_OneEntryPerRead ==
  /\ [](RunReturned => OneEntryPerRead)
  /\ [][EntryAppended => EntryFollowsCalls]_vars
  /\ [][CallsInOrder]_vars
  /\ <>RunReturned

\* the first read failed to align, on its reverse complement too, and the
\* read after it was aligned
C22_Witness ==
  /\ RunReturned
  /\ try_reverse
  /\ Len(reads) = 2
  /\ reads[1].sequence = <<"N">>
  /\ reference # <<>>
  /\ run_alignments[1].unmapped
  /\ ~run_alignments[2].unmapped
  /\ aligned_count = 1

\* the candidates of the cell the traceback stands on, computed again from
\* the filled matrix: diagonal, up (from the row above), left
DiagonalCandidate ==
  score_matrix[row][col] + (IF query[row] = target[col] THEN scoring.match_score ELSE scoring.mismatch_penalty)

UpCandidate == score_matrix[row][col + 1] + scoring.gap_extend

LeftCandidate == score_matrix[row + 1][col] + scoring.gap_extend

\* the traceback stands on a cell it will step from
TracebackAtCell ==
  /\ pc = "sw_trace"
  /\ row > 0
  /\ col > 0
  /\ score_matrix[row + 1][col + 1] > 0

\* the diagonal candidate gave the value of the cell
DiagonalGaveValue == TracebackAtCell /\ DiagonalCandidate = score_matrix[row + 1][col + 1]

\* the diagonal candidate did not, the up and the left candidates both did
UpAndLeftGaveValue ==
  /\ TracebackAtCell
  /\ DiagonalCandidate # score_matrix[row + 1][col + 1]
  /\ UpCandidate = score_matrix[row + 1][col + 1]
  /\ LeftCandidate = score_matrix[row + 1][col + 1]

\* the step the traceback takes from the cell
TakesDiagonal ==
  /\ row' = row - 1
  /\ col' = col - 1
  /\ cigar_ops' = Append(cigar_ops, "M")
  /\ pc' = "sw_trace"

TakesUp ==
  /\ row' = row - 1
  /\ col' = col
  /\ cigar_ops' = Append(cigar_ops, "I")
  /\ pc' = "sw_trace"

\* the alternative that gave the cell (r, c) of the filled matrix its
\* value, the first in the order diagonal (1), up (3), left (2), none (0)
FirstAlternative(r, c) ==
  LET value == score_matrix[r + 1][c + 1]
      diagonal == score_matrix[r][c] + (IF query[r] = target[c] THEN scoring.match_score ELSE scoring.mismatch_penalty)
      up == score_matrix[r][c + 1] + scoring.gap_extend
      left == score_matrix[r + 1][c] + scoring.gap_extend
  IN CASE value = diagonal -> 1
       [] value # diagonal /\ value = up -> 3
       [] value # diagonal /\ value # up /\ value = left -> 2
       [] OTHER -> 0

\* every cell of the filled matrix records its first alternative
RecordsFirstAlternative ==
  pc = "sw_trace" =>
    \A r \in 1..Len(query), c \in 1..Len(target) :
      traceback[r + 1][c + 1] = FirstAlternative(r, c)

\* C23: smith_waterman records for every cell the first alternative, in the
\* order diagonal, up, left, reset, that gave the cell its value, and the
\* traceback follows the record: from a cell whose value the
\* diagonal candidate gave it steps diagonally and emits M, and from a cell
\* whose value the diagonal candidate did not give and the up and the left
\* candidates both gave it steps up and emits I.
C23_TieBreakOrder ==
  /\ [][DiagonalGaveValue => TakesDiagonal]_vars
  /\ [][UpAndLeftGaveValue => TakesUp]_vars
  /\ []RecordsFirstAlternative

\* the traceback has stepped up from a cell where up and left tied
C23_Witness ==
  /\ pc = "sw_trace"
  /\ Len(cigar_ops) > 0
  /\ cigar_ops[Len(cigar_ops)] = "I"
  /\ row + 1 <= Len(query)
  /\ col >= 1
  /\ score_matrix[row + 2][col + 1] > 0
  /\ score_matrix[row + 1][col + 1] + scoring.gap_extend = score_matrix[row + 2][col + 1]
  /\ score_matrix[row + 2][col] + scoring.gap_extend = score_matrix[row + 2][col + 1]
  /\ score_matrix[row + 1][col] + (IF query[row + 1] = target[col] THEN scoring.match_score ELSE scoring.mismatch_penalty) # score_matrix[row + 2][col + 1]

\* what FM_backward_search returns for the pattern p on the index held
SearchRange(p) == FM_backward_search(p, count_table, occurrence, Len(suffix_array))

\* the no-match pair, or a range that is not empty and lies within 0..n
WellFormedRange(r, n) ==
  \/ r = <<-1, -1>>
  \/ 0 <= r[1] /\ r[1] < r[2] /\ r[2] <= n

\* C24: FM_backward_search returns the no-match pair (-1, -1) or a pair
\* (top, bottom) with 0 <= top < bottom <= n, never an empty or inverted
\* range of non-negative bounds; here for the read and for each of its
\* suffixes, the patterns whose ranges the loop goes through.
C24_RangeWellFormed ==
  IndexBuilt =>
    \A k \in 0..Len(read) : WellFormedRange(SearchRange(SliceFrom(read, k)), Len(bwt))

\* the search stops at its second step: the last symbol of the read is
\* found, the first occurs in the reference, and the two together do not
C24_Witness ==
  /\ pc = "exact_done"
  /\ Len(read) = 2
  /\ read[1] \in Chars(reference)
  /\ SearchRange(SliceFrom(read, 1)) # <<-1, -1>>
  /\ SearchRange(read) = <<-1, -1>>
  /\ exact_positions = <<>>

\* how many codes of an edit script are among the given ones
CodesAmong(script, codes) == Cardinality({k \in 1..Len(script) : script[k] \in codes})

\* the score of an edit script read from offset i of q and offset j of t:
\* the match score or the mismatch penalty for each M column, the gap
\* penalty for each I and each D
RECURSIVE ScriptScore(_, _, _, _, _, _)
ScriptScore(script, q, t, sc, i, j) ==
  IF script = <<>> THEN 0
  ELSE IF Head(script) = "M"
  THEN (IF q[i + 1] = t[j + 1] THEN sc.match_score ELSE sc.mismatch_penalty)
         + ScriptScore(Tail(script), q, t, sc, i + 1, j + 1)
  ELSE IF Head(script) = "I"
  THEN sc.gap_extend + ScriptScore(Tail(script), q, t, sc, i + 1, j)
  ELSE sc.gap_extend + ScriptScore(Tail(script), q, t, sc, i, j + 1)

\* C25: the edit script smith_waterman returns agrees with the start it
\* returns and with its score: the M and I codes are as many as the rows
\* from the start to the maximum cell, the M and D codes as many as the
\* columns, the script scored over query[row:max_row] and
\* target[col:max_col] gives the score returned, and a score of 0 comes
\* with the empty script and the start (0, 0).
C25_ScriptConsistent ==
  SWReturned =>
    LET script == ExpandCigar(sw_result.cigar)
    IN /\ \A k \in 1..Len(script) : script[k] \in {"M", "I", "D"}
       /\ CodesAmong(script, {"M", "I"}) = best.max_row - sw_result.query_start
       /\ CodesAmong(script, {"M", "D"}) = best.max_col - sw_result.target_start
       /\ ScriptScore(script, query, target, scoring, sw_result.query_start, sw_result.target_start) = sw_result.score
       /\ sw_result.score = best.max_score
       /\ sw_result.score = 0 =>
            /\ sw_result.cigar = <<>>
            /\ sw_result.query_start = 0
            /\ sw_result.target_start = 0

\* a script with a gap and two M columns that starts inside the query
C25_Witness ==
  /\ SWReturned
  /\ sw_result.query_start > 0
  /\ sw_result.score > 0
  /\ CodesAmong(ExpandCigar(sw_result.cigar), {"I", "D"}) > 0
  /\ CodesAmong(ExpandCigar(sw_result.cigar), {"M"}) > 1

\* C26: no two records of the list bowtie2_align returns report the same
\* position: each position, a candidate start plus the start column of its
\* alignment, appears at most once.
C26_PositionsDistinct ==
  BowtieReturned =>
    \A i, j \in 1..Len(alignments) :
      i # j => alignments[i].position # alignments[j].position

\* the read occurs in the reference and is long enough for a seed
ReadOccursSeeded ==
  /\ Len(read) >= seed_len
  /\ BruteForcePositions(read, reference) # {}

\* the record at rank 0 is an exact match of the whole read: the full
\* score, the CIGAR of Len(read) M columns, a position where the read occurs
TopRecordIsExactMatch ==
  /\ Len(alignments) > 0
  /\ alignments[1].score = default_match_score * Len(read)
  /\ alignments[1].cigar = Str(Len(read)) \o <<"M">>
  /\ alignments[1].position \in BruteForcePositions(read, reference)

\* C27: for a read that occurs in the reference and is at least seed_len
\* long, bowtie2_align returns a list that is not empty and whose first
\* record has the score match_score * |read|, the CIGAR '<|read|>M' and a
\* position where the read occurs in the reference; and for every read, each
\* candidate start gives a record: the list returned has as many records as
\* there were candidates.
C27_ExactReadTopRecord ==
  BowtieReturned =>
    /\ ReadOccursSeeded => TopRecordIsExactMatch
    /\ Len(alignments) = Len(candidate_positions)

\* the first candidate is not where the read occurs, and its
\* alignment starts at a later column of its window
C27_Witness ==
  /\ BowtieReturned
  /\ ReadOccursSeeded
  /\ Len(read) > seed_len
  /\ Len(candidate_positions) >= 2
  /\ candidate_positions[1] \notin BruteForcePositions(read, reference)
  /\ TopRecordIsExactMatch

\* an iteration of the loop of extract_seeds moves the offset forward, from
\* an offset at which a seed fits
SeedLoopAdvances ==
  (pc = "extracting" /\ pc' = "extracting") =>
    /\ offset' > offset
    /\ offset >= 0
    /\ offset + seed_len <= Len(read)
    /\ Len(seeds') = Len(seeds) + 1

\* an iteration of the traceback of smith_waterman moves up, left, or both
TracebackDescends ==
  (pc = "sw_trace" /\ pc' = "sw_trace") =>
    /\ row' <= row
    /\ col' <= col
    /\ row' + col' < row + col
    /\ row' >= 0
    /\ col' >= 0

\* the configurations of the claim
PositiveConfiguration == seed_len > 0 /\ seed_interval > 0 /\ max_mismatches >= 0

\* C28: with a seed length and a stride above 0 and K at least 0,
\* hisat_align and bowtie2_align each run on to their return and return a
\* list; every iteration of the loop of extract_seeds moves its offset
\* forward, and every iteration of the traceback of smith_waterman moves
\* the row or the column back.
C28_AlignersTerminate ==
  /\ [](PositiveConfiguration)
  /\ <>AlignerReturned
  /\ [](AlignerReturned => DOMAIN alignments = 1..Len(alignments))
  /\ [][SeedLoopAdvances]_vars
  /\ [][TracebackDescends]_vars

\* bowtie2_align has returned after two iterations of the seed loop and a
\* traceback of two steps
C28_Witness ==
  /\ BowtieReturned
  /\ Len(seeds) = 2
  /\ offset = 2
  /\ Len(cigar_ops) = 2
  /\ Len(alignments) > 0

====
